---------------------------- MODULE Spec2Model ----------------------------
(***************************************************************************)
(* A model of the TOON codec of patient_notes/dspy_toon_adapter/toon.py.   *)
(* and of ToonAdapter.parse of toon_adapter.py in the same package.        *)
(*                                                                         *)
(* Text is a sequence of one-character strings, so that quoting, escaping, *)
(* scanning and number recognition are computed character by character as  *)
(* the Python code computes them.  A JSON value is a tagged record:        *)
(*   [t |-> "null"]  [t |-> "bool", v |-> b]  [t |-> "int", v |-> i]       *)
(*   [t |-> "float", m |-> mantissa, e |-> exponent]   (m * 10^e)          *)
(*   [t |-> "str", v |-> chars]                                            *)
(*   [t |-> "arr", v |-> <<values>>, n |-> declared]                       *)
(*   [t |-> "obj", v |-> << <<key, value>>, ... >>]  (insertion order)     *)
(* The field n of an array is a history field: the length its header       *)
(* declared when the decoder built it (Len(v) for a host list).  A raised  *)
(* exception is the value [t |-> "err", v |-> message].                    *)
(***************************************************************************)
EXTENDS Integers, Sequences, FiniteSets, TLC

VARIABLES pc, value, options, text, result, calls, writers, signature, completion, raised,
          demos, inputs, messages

vars == <<pc, value, options, text, result, calls, writers, signature, completion,
         raised, demos, inputs, messages>>

-----------------------------------------------------------------------------
(* Constants of toon.py *)

COMMA == ","
COLON == ":"
SPACE == " "
PIPE == "|"
TAB == "\t"
OPEN_BRACKET == "["
CLOSE_BRACKET == "]"
OPEN_BRACE == "{"
CLOSE_BRACE == "}"
NULL_LITERAL == <<"n", "u", "l", "l">>
TRUE_LITERAL == <<"t", "r", "u", "e">>
FALSE_LITERAL == <<"f", "a", "l", "s", "e">>
BACKSLASH == "\\"
DOUBLE_QUOTE == "\""
NEWLINE == "\n"
CARRIAGE_RETURN == "\r"
LIST_ITEM_MARKER == <<"-">>
LIST_ITEM_PREFIX == <<"-", " ">>
DEFAULT_DELIMITER == COMMA

-----------------------------------------------------------------------------
(* Python str primitives *)

LowerLetters == <<"a", "b", "c", "d", "e", "f", "g", "h", "i", "j", "k", "l", "m",
                  "n", "o", "p", "q", "r", "s", "t", "u", "v", "w", "x", "y", "z">>
UpperLetters == <<"A", "B", "C", "D", "E", "F", "G", "H", "I", "J", "K", "L", "M",
                  "N", "O", "P", "Q", "R", "S", "T", "U", "V", "W", "X", "Y", "Z">>
DigitChars == <<"0", "1", "2", "3", "4", "5", "6", "7", "8", "9">>

Range(s) == {s[i] : i \in DOMAIN s}

IsDigit(c) == c \in Range(DigitChars)
IsLetter(c) == c \in Range(LowerLetters) \/ c \in Range(UpperLetters)
\* \w of the re module, on ASCII
IsWordChar(c) == IsLetter(c) \/ IsDigit(c) \/ c = "_"
\* what str.strip() removes, on ASCII (\x0b and \x0c are not drawn)
IsSpace(c) == c \in {" ", "\t", "\n", "\r"}

DigitVal(c) == CHOOSE d \in 0..9 : DigitChars[d + 1] = c

LowerChar(c) ==
    IF c \in Range(UpperLetters)
    THEN LowerLetters[CHOOSE i \in DOMAIN UpperLetters : UpperLetters[i] = c]
    ELSE c

\* str.lower()
Lower(s) == [i \in DOMAIN s |-> LowerChar(s[i])]

\* s[a:b] with 0-based Python indices, 0 <= a
Slice(s, a, b) == SubSeq(s, a + 1, IF b > Len(s) THEN Len(s) ELSE b)

\* s[a:]
From(s, a) == SubSeq(s, a + 1, Len(s))

RECURSIVE LStripFrom(_, _)
LStripFrom(s, i) ==
    IF i <= Len(s) /\ IsSpace(s[i]) THEN LStripFrom(s, i + 1) ELSE SubSeq(s, i, Len(s))

\* str.lstrip()
LStrip(s) == LStripFrom(s, 1)

RECURSIVE RStripTo(_, _)
RStripTo(s, j) ==
    IF j >= 1 /\ IsSpace(s[j]) THEN RStripTo(s, j - 1) ELSE SubSeq(s, 1, j)

\* str.rstrip()
RStrip(s) == RStripTo(s, Len(s))

\* str.strip()
Strip(s) == RStrip(LStrip(s))

\* str.startswith / str.endswith
StartsWith(s, p) == Len(s) >= Len(p) /\ SubSeq(s, 1, Len(p)) = p
EndsWith(s, p) == Len(s) >= Len(p) /\ SubSeq(s, Len(s) - Len(p) + 1, Len(s)) = p

\* c in s, for a one-character c
Contains(s, c) == \E i \in DOMAIN s : s[i] = c

\* s.find(c) for a one-character c: 0-based index or -1
Find(s, c) ==
    IF Contains(s, c) THEN (CHOOSE i \in DOMAIN s : s[i] = c /\ \A j \in 1..(i - 1) : s[j] # c) - 1
    ELSE -1

RECURSIVE Concat(_)
\* "".join(parts)
Concat(parts) == IF parts = <<>> THEN <<>> ELSE Head(parts) \o Concat(Tail(parts))

RECURSIVE Join(_, _)
\* sep.join(parts), sep a string
Join(sep, parts) ==
    IF parts = <<>> THEN <<>>
    ELSE IF Len(parts) = 1 THEN parts[1]
    ELSE parts[1] \o sep \o Join(sep, Tail(parts))

RECURSIVE SplitFrom(_, _, _, _)
SplitFrom(s, c, i, cur) ==
    IF i > Len(s) THEN <<cur>>
    ELSE IF s[i] = c THEN <<cur>> \o SplitFrom(s, c, i + 1, <<>>)
    ELSE SplitFrom(s, c, i + 1, Append(cur, s[i]))

\* s.split(c) for a one-character separator
Split(s, c) == SplitFrom(s, c, 1, <<>>)

RECURSIVE Replace(_, _, _)
\* s.replace(c, rep) for a one-character c
Replace(s, c, rep) ==
    IF s = <<>> THEN <<>>
    ELSE (IF Head(s) = c THEN rep ELSE <<Head(s)>>) \o Replace(Tail(s), c, rep)

RECURSIVE Repeat(_, _)
\* s * n
Repeat(s, n) == IF n <= 0 THEN <<>> ELSE s \o Repeat(s, n - 1)

RECURSIVE NatToStr(_)
NatToStr(n) ==
    IF n < 10 THEN <<DigitChars[n + 1]>>
    ELSE Append(NatToStr(n \div 10), DigitChars[(n % 10) + 1])

\* str(i) for an int
IntToStr(i) == IF i < 0 THEN <<"-">> \o NatToStr(-i) ELSE NatToStr(i)

-----------------------------------------------------------------------------
(* String utilities *)

\* the replacements of escape_string without the first, of the backslash
EscapeWithoutBackslash(val) ==
    Replace(
      Replace(
        Replace(
          Replace(val, DOUBLE_QUOTE, <<BACKSLASH, DOUBLE_QUOTE>>),
          NEWLINE, <<BACKSLASH, "n">>),
        CARRIAGE_RETURN, <<BACKSLASH, "r">>),
      TAB, <<BACKSLASH, "t">>)

escape_string(val) ==
    Replace(
      Replace(
        Replace(
          Replace(
            Replace(val, BACKSLASH, <<BACKSLASH, BACKSLASH>>),
            DOUBLE_QUOTE, <<BACKSLASH, DOUBLE_QUOTE>>),
          NEWLINE, <<BACKSLASH, "n">>),
        CARRIAGE_RETURN, <<BACKSLASH, "r">>),
      TAB, <<BACKSLASH, "t">>)

\* The ValueError of unescape_string and the value it returns otherwise.
Raise(msg) == [t |-> "err", v |-> msg]
IsErr(x) == x.t = "err"

RECURSIVE unescape_loop(_, _, _)
unescape_loop(val, i, res) ==
    IF i >= Len(val) THEN [t |-> "str", v |-> res]
    ELSE IF val[i + 1] = BACKSLASH
    THEN IF i + 1 >= Len(val)
         THEN Raise("Invalid escape sequence: backslash at end of string")
         ELSE LET next_char == val[i + 2] IN
              IF next_char = "n" THEN unescape_loop(val, i + 2, Append(res, NEWLINE))
              ELSE IF next_char = "t" THEN unescape_loop(val, i + 2, Append(res, TAB))
              ELSE IF next_char = "r" THEN unescape_loop(val, i + 2, Append(res, CARRIAGE_RETURN))
              ELSE IF next_char = BACKSLASH THEN unescape_loop(val, i + 2, Append(res, BACKSLASH))
              ELSE IF next_char = DOUBLE_QUOTE THEN unescape_loop(val, i + 2, Append(res, DOUBLE_QUOTE))
              ELSE Raise("Invalid escape sequence")
    ELSE unescape_loop(val, i + 1, Append(res, val[i + 1]))

unescape_string(val) == unescape_loop(val, 0, <<>>)

is_boolean_or_null_literal(val) ==
    Lower(val) \in {TRUE_LITERAL, FALSE_LITERAL, NULL_LITERAL}

\* index (1-based) of the first position >= i of s that holds no digit
RECURSIVE SkipDigits(_, _)
SkipDigits(s, i) == IF i <= Len(s) /\ IsDigit(s[i]) THEN SkipDigits(s, i + 1) ELSE i

\* "$" of the re module: the end, or just before a final newline
AtDollar(s, i) == i = Len(s) + 1 \/ (i = Len(s) /\ s[i] = NEWLINE)

\* (?:e[+-]?\d+)? from index i2 with the digits sought from e0: the index
\* after the group, which matches when a digit follows
NumericExponent(s, i2, e0) ==
    IF i2 <= Len(s) /\ LowerChar(s[i2]) = "e" /\ SkipDigits(s, e0) > e0
    THEN SkipDigits(s, e0) ELSE i2

\* (?:\.\d+)? from index i1 with the digits after the point ending at f1
NumericFraction(s, i1, f1) == IF i1 <= Len(s) /\ s[i1] = "." /\ f1 > i1 + 1 THEN f1 ELSE i1

NumericAfterFraction(s, i2) ==
    AtDollar(s, NumericExponent(s, i2,
                    IF i2 + 1 <= Len(s) /\ s[i2 + 1] \in {"+", "-"} THEN i2 + 2 ELSE i2 + 1))

NumericAfterDigits(s, i0, i1) ==
    i1 > i0 /\ NumericAfterFraction(s, NumericFraction(s, i1, SkipDigits(s, i1 + 1)))

\* NUMERIC_REGEX = ^-?\d+(?:\.\d+)?(?:e[+-]?\d+)?$ with re.IGNORECASE
MatchesNumericRegex(s) ==
    LET i0 == IF Len(s) >= 1 /\ s[1] = "-" THEN 2 ELSE 1
    IN  NumericAfterDigits(s, i0, SkipDigits(s, i0))

\* OCTAL_REGEX = ^0\d+$
MatchesOctalRegex(s) ==
    Len(s) >= 2 /\ s[1] = "0" /\ SkipDigits(s, 2) > 2 /\ AtDollar(s, SkipDigits(s, 2))

is_numeric_like(val) == MatchesNumericRegex(val) \/ MatchesOctalRegex(val)


\* digitpart ::= digit (["_"] digit)* of float() and int(): the index after it
RECURSIVE SkipDigitPartRest(_, _)
SkipDigitPartRest(s, i) ==
    IF i <= Len(s) /\ IsDigit(s[i]) THEN SkipDigitPartRest(s, i + 1)
    ELSE IF i + 1 <= Len(s) /\ s[i] = "_" /\ IsDigit(s[i + 1]) THEN SkipDigitPartRest(s, i + 2)
    ELSE i

SkipDigitPart(s, i) == IF i <= Len(s) /\ IsDigit(s[i]) THEN SkipDigitPartRest(s, i + 1) ELSE i

SkipSign(s, i) == IF i <= Len(s) /\ s[i] \in {"+", "-"} THEN i + 1 ELSE i

\* The parts of a floatnumber of s (already stripped): where the integer digits
\* [a0, a1), the fraction digits [b0, b1) and the exponent digits [c0, c1) lie,
\* and whether s is one.
FloatRecord(s, a0, a1, dot, b0, b1, hasExp, c0, c1) ==
    [ok |-> (a1 > a0 \/ (dot /\ b1 > b0)) /\ (hasExp => c1 > c0) /\ c1 = Len(s) + 1,
     neg |-> Len(s) >= 1 /\ s[1] = "-",
     int |-> SubSeq(s, a0, a1 - 1),
     frac |-> SubSeq(s, b0, b1 - 1),
     hasExp |-> hasExp,
     expNeg |-> hasExp /\ b1 + 1 <= Len(s) /\ s[b1 + 1] = "-",
     exp |-> SubSeq(s, c0, c1 - 1)]

FloatExpDigits(s, a0, a1, dot, b0, b1, hasExp, c0) ==
    FloatRecord(s, a0, a1, dot, b0, b1, hasExp, c0, IF hasExp THEN SkipDigitPart(s, c0) ELSE b1)

FloatExp(s, a0, a1, dot, b0, b1, hasExp) ==
    FloatExpDigits(s, a0, a1, dot, b0, b1, hasExp, IF hasExp THEN SkipSign(s, b1 + 1) ELSE b1)

FloatFrac(s, a0, a1, dot, b0, b1) ==
    FloatExp(s, a0, a1, dot, b0, b1, b1 <= Len(s) /\ LowerChar(s[b1]) = "e")

FloatPoint(s, a0, a1, dot) ==
    FloatFrac(s, a0, a1, dot, IF dot THEN a1 + 1 ELSE a1,
              IF dot THEN SkipDigitPart(s, a1 + 1) ELSE a1)

FloatInt(s, a0, a1) == FloatPoint(s, a0, a1, a1 <= Len(s) /\ s[a1] = ".")

FloatSign(s, a0) == FloatInt(s, a0, SkipDigitPart(s, a0))

FloatParts(s) == FloatSign(s, SkipSign(s, 1))

FloatStripped(t) ==
    \/ FloatParts(t).ok
    \/ Lower(SubSeq(t, SkipSign(t, 1), Len(t)))
         \in {<<"i", "n", "f">>, <<"n", "a", "n">>, <<"i", "n", "f", "i", "n", "i", "t", "y">>}

\* float(s) does not raise: a floatnumber, or inf / infinity / nan in any case
FloatAccepts(s) == FloatStripped(Strip(s))

\* [sign] digitpart from a0 to the end of t
IntFrom(t, a0) == SkipDigitPart(t, a0) > a0 /\ SkipDigitPart(t, a0) = Len(t) + 1

\* int(s) does not raise: [sign] digitpart
IntAccepts(s) == IntFrom(Strip(s), SkipSign(Strip(s), 1))

RECURSIVE DigitsValue(_, _)
\* the number the digits of s spell after acc, underscores skipped
DigitsValue(s, acc) ==
    IF s = <<>> THEN acc
    ELSE IF Head(s) = "_" THEN DigitsValue(Tail(s), acc)
    ELSE DigitsValue(Tail(s), 10 * acc + DigitVal(Head(s)))

RECURSIVE CountDigits(_)
CountDigits(s) ==
    IF s = <<>> THEN 0 ELSE (IF Head(s) = "_" THEN 0 ELSE 1) + CountDigits(Tail(s))

IntSigned(t, n) == IF Len(t) >= 1 /\ t[1] = "-" THEN -n ELSE n

IntStripped(t) == IntSigned(t, DigitsValue(SubSeq(t, SkipSign(t, 1), Len(t)), 0))

\* int(s), for an s that IntAccepts
IntValue(s) == IntStripped(Strip(s))

RECURSIVE NormFloat(_, _)
\* m * 10^e with the zeros at the end of m moved into e
NormFloat(m, e) ==
    IF m = 0 THEN [t |-> "float", m |-> 0, e |-> 0]
    ELSE IF m % 10 = 0 THEN NormFloat(m \div 10, e + 1)
    ELSE [t |-> "float", m |-> m, e |-> e]

FloatScaled(p, m, x) ==
    NormFloat(IF p.neg THEN -m ELSE m, (IF p.expNeg THEN -x ELSE x) - CountDigits(p.frac))

FloatOfParts(p) == FloatScaled(p, DigitsValue(p.int \o p.frac, 0), DigitsValue(p.exp, 0))

\* float(s), for an s that is a floatnumber: the decimal it spells
FloatValue(s) == FloatOfParts(FloatParts(Strip(s)))

is_numeric_literal(token) ==
    IF token = <<>> THEN FALSE ELSE FloatAccepts(token)

\* VALID_KEY_REGEX = ^[A-Z_][\w.]*$ with re.IGNORECASE
RECURSIVE SkipKeyChars(_, _)
SkipKeyChars(s, i) ==
    IF i <= Len(s) /\ (IsWordChar(s[i]) \/ s[i] = ".") THEN SkipKeyChars(s, i + 1) ELSE i

is_valid_unquoted_key(key) ==
    IF key = <<>> THEN FALSE
    ELSE (IsLetter(key[1]) \/ key[1] = "_") /\ AtDollar(key, SkipKeyChars(key, 2))

is_safe_unquoted(val, delimiter) ==
    IF val = <<>> THEN FALSE
    ELSE IF val # Strip(val) THEN FALSE
    ELSE IF is_boolean_or_null_literal(val) \/ is_numeric_like(val) THEN FALSE
    ELSE IF Contains(val, ":") \/ Contains(val, DOUBLE_QUOTE) \/ Contains(val, BACKSLASH) THEN FALSE
    ELSE IF \E c \in {"[", "]", "{", "}"} : Contains(val, c) THEN FALSE
    ELSE IF \E c \in {NEWLINE, CARRIAGE_RETURN, TAB} : Contains(val, c) THEN FALSE
    ELSE IF Contains(val, delimiter) THEN FALSE
    ELSE IF StartsWith(val, LIST_ITEM_MARKER) THEN FALSE
    ELSE TRUE

RECURSIVE find_unquoted_loop(_, _, _, _)
find_unquoted_loop(content, char, i, in_quotes) ==
    IF i >= Len(content) THEN -1
    ELSE IF content[i + 1] = BACKSLASH /\ i + 1 < Len(content) /\ in_quotes
    THEN find_unquoted_loop(content, char, i + 2, in_quotes)
    ELSE IF content[i + 1] = DOUBLE_QUOTE
    THEN find_unquoted_loop(content, char, i + 1, ~in_quotes)
    ELSE IF content[i + 1] = char /\ ~in_quotes THEN i
    ELSE find_unquoted_loop(content, char, i + 1, in_quotes)

\* content.find(char, start): the quotes are not looked at
FindQuotedOrNot(content, char, start) ==
    LET at == {i \in start..(Len(content) - 1) : content[i + 1] = char}
    IN  IF at = {} THEN -1 ELSE CHOOSE i \in at : \A j \in at : i <= j

\* 0-based index, or -1
find_unquoted_char(content, char, start) == find_unquoted_loop(content, char, start, FALSE)

RECURSIVE find_first_unquoted_loop(_, _, _, _)
find_first_unquoted_loop(line, chars, i, in_quotes) ==
    IF i >= Len(line) THEN [pos |-> -1, char |-> "None"]
    ELSE IF line[i + 1] = BACKSLASH /\ i + 1 < Len(line) /\ in_quotes
    THEN find_first_unquoted_loop(line, chars, i + 2, in_quotes)
    ELSE IF line[i + 1] = DOUBLE_QUOTE
    THEN find_first_unquoted_loop(line, chars, i + 1, ~in_quotes)
    ELSE IF ~in_quotes /\ line[i + 1] \in chars THEN [pos |-> i, char |-> line[i + 1]]
    ELSE find_first_unquoted_loop(line, chars, i + 1, in_quotes)

find_first_unquoted(line, chars) == find_first_unquoted_loop(line, chars, 0, FALSE)

RECURSIVE parse_delimited_loop(_, _, _, _, _, _)
parse_delimited_loop(content, delimiter, i, current, in_quotes, values) ==
    IF i >= Len(content)
    THEN IF Strip(current) # <<>> THEN Append(values, Strip(current)) ELSE values
    ELSE LET c == content[i + 1] IN
         IF c = BACKSLASH /\ i + 1 < Len(content) /\ in_quotes
         THEN parse_delimited_loop(content, delimiter, i + 2,
                                   current \o <<c, content[i + 2]>>, in_quotes, values)
         ELSE IF c = DOUBLE_QUOTE
         THEN parse_delimited_loop(content, delimiter, i + 1, Append(current, c), ~in_quotes, values)
         ELSE IF c = delimiter /\ ~in_quotes
         THEN parse_delimited_loop(content, delimiter, i + 1, <<>>, in_quotes,
                                   Append(values, Strip(current)))
         ELSE parse_delimited_loop(content, delimiter, i + 1, Append(current, c), in_quotes, values)

parse_delimited_values(content, delimiter) ==
    IF Strip(content) = <<>> THEN <<>>
    ELSE parse_delimited_loop(content, delimiter, 0, <<>>, FALSE, <<>>)

-----------------------------------------------------------------------------
(* Values *)

VNull == [t |-> "null"]
VBool(b) == [t |-> "bool", v |-> b]
VInt(i) == [t |-> "int", v |-> i]
VStr(s) == [t |-> "str", v |-> s]
\* a list, and the array the decoder builds under a header that declared n
VArr(items) == [t |-> "arr", v |-> items, n |-> Len(items)]
VArrDeclared(items, n) == [t |-> "arr", v |-> items, n |-> n]
VObj(pairs) == [t |-> "obj", v |-> pairs]

\* Optional[str]: None, or a string
None == [t |-> "opt", some |-> FALSE, v |-> <<>>]
Some(s) == [t |-> "opt", some |-> TRUE, v |-> s]
\* the truth value of an Optional[str]: None and "" are false
Truthy(key) == key.some /\ key.v # <<>>

Keys(pairs) == [i \in DOMAIN pairs |-> pairs[i][1]]
Values(pairs) == [i \in DOMAIN pairs |-> pairs[i][2]]
HasKey(pairs, k) == \E i \in DOMAIN pairs : pairs[i][1] = k
\* d[k]
Lookup(pairs, k) == pairs[CHOOSE i \in DOMAIN pairs : pairs[i][1] = k][2]
\* d[k] = v: a present key keeps its place, a new key goes last
DictSet(pairs, k, v) ==
    IF HasKey(pairs, k)
    THEN [i \in DOMAIN pairs |-> IF pairs[i][1] = k THEN <<k, v>> ELSE pairs[i]]
    ELSE Append(pairs, <<k, v>>)

-----------------------------------------------------------------------------
(* Normalization *)

\* repr(k) of a mapping key in place of str(k)
KeyRepr(k) ==
    IF k.t = "str" THEN <<"'">> \o k.v \o <<"'">>
    ELSE IF k.t = "int" THEN IntToStr(k.v)
    ELSE IF k.t = "bool" THEN (IF k.v THEN <<"T", "r", "u", "e">> ELSE <<"F", "a", "l", "s", "e">>)
    ELSE <<"N", "o", "n", "e">>

\* str(k) of a mapping key: a str key is itself; None, bool and int keys are
\* spelled as Python prints them
KeyStr(k) ==
    IF k.t = "str" THEN k.v
    ELSE IF k.t = "int" THEN IntToStr(k.v)
    ELSE IF k.t = "bool" THEN (IF k.v THEN <<"T", "r", "u", "e">> ELSE <<"F", "a", "l", "s", "e">>)
    ELSE <<"N", "o", "n", "e">>

\* the characters that occur in the values below, in code point order
Ascii ==
    << "'", "-", "0", "1", "2", "3", "4", "5", "6", "7", "8", "9",
       "F", "N", "T", "a", "e", "k", "l", "n", "o", "r", "s", "u", "v", "x" >>

CodeOf(c) == CHOOSE i \in DOMAIN Ascii : Ascii[i] = c

\* a < b for two str
StrLess(a, b) ==
    \E i \in 1..(Len(a) + 1) :
        /\ i <= Len(b)
        /\ \A j \in 1..(i - 1) : a[j] = b[j]
        /\ (i = Len(a) + 1 \/ CodeOf(a[i]) < CodeOf(b[i]))

\* repr(x) of None, a bool, an int, and a str without quotes or escapes
Repr(x) == IF x.t = "str" THEN <<"'">> \o x.v \o <<"'">> ELSE KeyStr(x)

IsNumeric(x) == x.t \in {"bool", "int"}
NumVal(x) == IF x.t = "bool" THEN (IF x.v THEN 1 ELSE 0) ELSE x.v

\* sorted(value) compares without a TypeError: all numbers, all str, or
\* nothing to compare
Sortable(S) ==
    \/ Cardinality(S) <= 1
    \/ \A x \in S : IsNumeric(x)
    \/ \A x \in S : x.t = "str"

\* x sorts before y: by value when natural, by repr otherwise
SortsBefore(x, y, natural) ==
    IF ~natural THEN StrLess(Repr(x), Repr(y))
    ELSE IF IsNumeric(x) THEN NumVal(x) < NumVal(y)
    ELSE StrLess(x.v, y.v)

RECURSIVE SortedFrom(_, _, _)
SortedFrom(S, natural, acc) ==
    IF S = {} THEN acc
    ELSE SortedFrom(S \ {CHOOSE x \in S : \A y \in S \ {x} : SortsBefore(x, y, natural)}, natural,
                    Append(acc, CHOOSE x \in S : \A y \in S \ {x} : SortsBefore(x, y, natural)))

\* sorted(value), and sorted(value, key=repr) when that raises TypeError
Sorted(S) == SortedFrom(S, Sortable(S), <<>>)

RECURSIVE normalize_value(_)
RECURSIVE normalize_items(_)
RECURSIVE normalize_mapping(_, _)

normalize_items(items) == [i \in DOMAIN items |-> normalize_value(items[i])]

\* {str(k): normalize_value(v) for k, v in value.items()}
normalize_mapping(pairs, acc) ==
    IF pairs = <<>> THEN acc
    ELSE normalize_mapping(Tail(pairs),
                           DictSet(acc, KeyStr(Head(pairs)[1]), normalize_value(Head(pairs)[2])))

\* Host values: the JSON tags, plus "tuple", "set" (a set or frozenset of
\* None, bool, int and str), "map" (a Mapping whose keys are host values),
\* "nonfinite" (inf, nan) and "other" (callables, unknown objects).
normalize_value(val) ==
    IF val.t = "null" THEN VNull
    ELSE IF val.t = "bool" THEN val
    ELSE IF val.t = "str" THEN val
    ELSE IF val.t = "int" THEN val
    ELSE IF val.t = "nonfinite" THEN VNull
    ELSE IF val.t = "float" THEN val
    ELSE IF val.t = "arr" THEN VArr(normalize_items(val.v))
    ELSE IF val.t = "tuple" THEN VArr(normalize_items(val.v))
    ELSE IF val.t = "set" THEN VArr(normalize_items(Sorted(val.v)))
    ELSE IF val.t = "obj"
    THEN VObj(normalize_mapping([i \in DOMAIN val.v |-> <<VStr(val.v[i][1]), val.v[i][2]>>], <<>>))
    ELSE IF val.t = "map" THEN VObj(normalize_mapping(val.v, <<>>))
    ELSE VNull

is_json_primitive(val) == val.t \in {"null", "str", "int", "float", "bool"}
is_json_array(val) == val.t = "arr"
is_json_object(val) == val.t = "obj"
is_array_of_primitives(arr) == arr = <<>> \/ \A i \in DOMAIN arr : is_json_primitive(arr[i])
is_array_of_arrays(arr) == arr = <<>> \/ \A i \in DOMAIN arr : is_json_array(arr[i])
is_array_of_objects(arr) == arr = <<>> \/ \A i \in DOMAIN arr : is_json_object(arr[i])

-----------------------------------------------------------------------------
(* Encoder *)

\* LineWriter.__init__
LineWriter(indent_size) ==
    [lines |-> <<>>,
     indentation_string |-> Repeat(<<SPACE>>, IF indent_size > 0 THEN indent_size ELSE 1),
     indent_cache |-> (0 :> <<>>),
     indent_size |-> indent_size]

\* LineWriter.push
push(writer, depth, content) ==
    LET cache == IF depth \notin DOMAIN writer.indent_cache
                 THEN IF writer.indent_size = 0
                      THEN writer.indent_cache @@ (depth :> Repeat(<<SPACE>>, depth))
                      ELSE writer.indent_cache @@ (depth :> Repeat(writer.indentation_string, depth))
                 ELSE writer.indent_cache
        indent == cache[depth]
    IN  [writer EXCEPT !.indent_cache = cache, !.lines = Append(@, indent \o content)]

\* LineWriter.to_string
to_string(writer) == Join(<<NEWLINE>>, writer.lines)

\* D: the digits of the mantissa of f, k of them; decpt: where the point lies
FloatPlaced(f, D, k, decpt) ==
    LET sign == IF f.m < 0 THEN <<"-">> ELSE <<>>
        sci == f.m # 0 /\ (decpt <= -4 \/ decpt > 16)
    IN  IF f.m = 0 THEN <<"0", ".", "0">>
        ELSE IF decpt <= 0 THEN sign \o <<"0", ".">> \o Repeat(<<"0">>, -decpt) \o D
        ELSE IF decpt >= k
        THEN sign \o D \o Repeat(<<"0">>, decpt - k) \o (IF sci THEN <<>> ELSE <<".", "0">>)
        ELSE sign \o SubSeq(D, 1, decpt) \o <<".">> \o SubSeq(D, decpt + 1, k)

FloatDigits(f, D) == FloatPlaced(f, D, Len(D), Len(D) + f.e)

\* str(x) of a finite float m * 10^e: repr gives fixed notation while the
\* decimal point lies in -4 < decpt <= 16; else the exponent form is
\* reformatted by format(Decimal(str(x)), "f")
FloatToStr(f) == FloatDigits(f, NatToStr(IF f.m < 0 THEN -f.m ELSE f.m))

encode_primitive(val, delimiter) ==
    IF val.t = "null" THEN NULL_LITERAL
    ELSE IF val.t = "bool" THEN (IF val.v THEN TRUE_LITERAL ELSE FALSE_LITERAL)
    ELSE IF val.t = "int" THEN IntToStr(val.v)
    ELSE IF val.t = "float" THEN FloatToStr(val)
    ELSE IF is_safe_unquoted(val.v, delimiter) THEN val.v
    ELSE <<DOUBLE_QUOTE>> \o escape_string(val.v) \o <<DOUBLE_QUOTE>>

encode_key(key) ==
    IF is_valid_unquoted_key(key) THEN key
    ELSE <<DOUBLE_QUOTE>> \o escape_string(key) \o <<DOUBLE_QUOTE>>

\* a header with the delimiter inside the brackets whatever it is
FormatHeaderDelimited(key, length, fields, delimiter, length_marker) ==
    (IF Truthy(key) THEN encode_key(key.v) ELSE <<>>)
        \o <<OPEN_BRACKET>> \o length_marker \o IntToStr(length) \o <<delimiter>> \o <<CLOSE_BRACKET>>
        \o (IF fields # <<>>
            THEN <<OPEN_BRACE>> \o Join(<<delimiter>>, [i \in DOMAIN fields |-> encode_key(fields[i])])
                 \o <<CLOSE_BRACE>>
            ELSE <<>>)
        \o <<COLON>>

\* fields: <<>> stands for both None and the empty list, which the code
\* treats alike (if fields:); length_marker: <<"#">>, or <<>> for False
format_header(key, length, fields, delimiter, length_marker) ==
    LET marker_prefix == length_marker
        fields_str == IF fields # <<>>
                      THEN <<OPEN_BRACE>> \o Join(<<delimiter>>, [i \in DOMAIN fields |-> encode_key(fields[i])])
                           \o <<CLOSE_BRACE>>
                      ELSE <<>>
        length_str == IF delimiter # COMMA
                      THEN <<OPEN_BRACKET>> \o marker_prefix \o IntToStr(length) \o <<delimiter>> \o <<CLOSE_BRACKET>>
                      ELSE <<OPEN_BRACKET>> \o marker_prefix \o IntToStr(length) \o <<CLOSE_BRACKET>>
    IN  IF Truthy(key) THEN encode_key(key.v) \o length_str \o fields_str \o <<COLON>>
        ELSE length_str \o fields_str \o <<COLON>>

\* None is <<>>: a header key list is never empty, the code tests its truth
detect_tabular_header(arr, delimiter) ==
    IF arr = <<>> THEN <<>>
    ELSE LET first_keys == Keys(arr[1].v)
             first_keys_set == Range(first_keys)
         IN  IF \A i \in DOMAIN arr :
                    /\ Range(Keys(arr[i].v)) = first_keys_set
                    /\ \A j \in DOMAIN arr[i].v : is_json_primitive(arr[i].v[j][2])
             THEN first_keys
             ELSE <<>>

RECURSIVE _encode_object(_, _, _, _, _)
RECURSIVE _encode_object_fields(_, _, _, _)
RECURSIVE _encode_key_value_pair(_, _, _, _, _)
RECURSIVE _encode_array(_, _, _, _, _)
RECURSIVE _encode_mixed_array(_, _, _, _, _)
RECURSIVE _encode_mixed_items(_, _, _, _)
RECURSIVE _encode_object_as_list_item(_, _, _, _)

_encode_value(val, opts, writer, depth) ==
    IF is_json_primitive(val) THEN push(writer, depth, encode_primitive(val, opts.delimiter))
    ELSE IF is_json_array(val) THEN _encode_array(val.v, opts, writer, depth, None)
    ELSE IF is_json_object(val) THEN _encode_object(val.v, opts, writer, depth, None)
    ELSE writer

\* for k, v in pairs: _encode_key_value_pair(k, v, options, writer, depth)
_encode_object_fields(pairs, opts, writer, depth) ==
    IF pairs = <<>> THEN writer
    ELSE _encode_object_fields(Tail(pairs), opts,
             _encode_key_value_pair(Head(pairs)[1], Head(pairs)[2], opts, writer, depth), depth)

_encode_object(obj, opts, writer, depth, key) ==
    LET w1 == IF Truthy(key) THEN push(writer, depth, encode_key(key.v) \o <<COLON>>) ELSE writer
    IN  _encode_object_fields(obj, opts, w1, IF ~Truthy(key) THEN depth ELSE depth + 1)

_encode_key_value_pair(key, val, opts, writer, depth) ==
    IF is_json_primitive(val)
    THEN push(writer, depth, encode_key(key) \o <<COLON, SPACE>> \o encode_primitive(val, opts.delimiter))
    ELSE IF is_json_array(val) THEN _encode_array(val.v, opts, writer, depth, Some(key))
    ELSE IF is_json_object(val) THEN _encode_object(val.v, opts, writer, depth, Some(key))
    ELSE writer

_encode_inline_primitive_array(arr, opts, writer, depth, key) ==
    LET encoded_values == [i \in DOMAIN arr |-> encode_primitive(arr[i], opts.delimiter)]
        joined == Join(<<opts.delimiter>>, encoded_values)
        header == format_header(key, Len(arr), <<>>, opts.delimiter, opts.lengthMarker)
    IN  push(writer, depth, header \o <<SPACE>> \o joined)

RECURSIVE _encode_tabular_rows(_, _, _, _, _)
_encode_tabular_rows(arr, fields, opts, writer, depth) ==
    IF arr = <<>> THEN writer
    ELSE LET row_values == [j \in DOMAIN fields |->
                               encode_primitive(Lookup(Head(arr).v, fields[j]), opts.delimiter)]
             row == Join(<<opts.delimiter>>, row_values)
         IN  _encode_tabular_rows(Tail(arr), fields, opts, push(writer, depth + 1, row), depth)

_encode_tabular_array(arr, fields, opts, writer, depth, key) ==
    LET header == format_header(key, Len(arr), fields, opts.delimiter, opts.lengthMarker)
    IN  _encode_tabular_rows(arr, fields, opts, push(writer, depth, header), depth)

\* _encode_array without its tabular branch
EncodeArrayAsList(arr, opts, writer, depth, key) ==
    IF arr = <<>>
    THEN push(writer, depth, format_header(key, 0, <<>>, opts.delimiter, opts.lengthMarker))
    ELSE IF is_array_of_primitives(arr)
    THEN _encode_inline_primitive_array(arr, opts, writer, depth, key)
    ELSE _encode_mixed_array(arr, opts, writer, depth, key)

_encode_array(arr, opts, writer, depth, key) ==
    IF arr = <<>>
    THEN push(writer, depth, format_header(key, 0, <<>>, opts.delimiter, opts.lengthMarker))
    ELSE IF is_array_of_primitives(arr)
    THEN _encode_inline_primitive_array(arr, opts, writer, depth, key)
    ELSE IF is_array_of_objects(arr)
    THEN LET tabular_header == detect_tabular_header(arr, opts.delimiter) IN
         IF tabular_header # <<>>
         THEN _encode_tabular_array(arr, tabular_header, opts, writer, depth, key)
         ELSE _encode_mixed_array(arr, opts, writer, depth, key)
    ELSE _encode_mixed_array(arr, opts, writer, depth, key)

\* the body of "for item in arr" of _encode_mixed_array
_encode_mixed_items(arr, opts, writer, depth) ==
    IF arr = <<>> THEN writer
    ELSE LET item == Head(arr)
             w1 == IF is_json_primitive(item)
                   THEN push(writer, depth + 1, LIST_ITEM_PREFIX \o encode_primitive(item, opts.delimiter))
                   ELSE IF is_json_object(item)
                   THEN _encode_object_as_list_item(item.v, opts, writer, depth + 1)
                   ELSE IF is_json_array(item)
                   THEN IF is_array_of_primitives(item.v)
                        THEN LET encoded == [i \in DOMAIN item.v |->
                                                encode_primitive(item.v[i], opts.delimiter)]
                                 joined == Join(<<opts.delimiter>>, encoded)
                                 h == format_header(None, Len(item.v), <<>>, opts.delimiter,
                                                    opts.lengthMarker)
                                 line == LIST_ITEM_PREFIX \o h \o
                                         (IF joined # <<>> THEN <<SPACE>> \o joined ELSE <<>>)
                             IN  push(writer, depth + 1, line)
                        ELSE _encode_array(item.v, opts, writer, depth + 1, None)
                   ELSE writer
         IN  _encode_mixed_items(Tail(arr), opts, w1, depth)

_encode_mixed_array(arr, opts, writer, depth, key) ==
    LET header == format_header(key, Len(arr), <<>>, opts.delimiter, opts.lengthMarker)
    IN  _encode_mixed_items(arr, opts, push(writer, depth, header), depth)

_encode_object_as_list_item(obj, opts, writer, depth) ==
    LET keys == obj IN
    IF keys = <<>> THEN push(writer, depth, RStrip(LIST_ITEM_PREFIX))
    ELSE LET first_key == keys[1][1]
             first_value == keys[1][2]
             w1 == IF is_json_primitive(first_value)
                   THEN push(writer, depth,
                             LIST_ITEM_PREFIX \o encode_key(first_key) \o <<COLON, SPACE>>
                               \o encode_primitive(first_value, opts.delimiter))
                   ELSE _encode_key_value_pair(first_key, first_value, opts,
                                               push(writer, depth, RStrip(LIST_ITEM_PREFIX)), depth + 1)
         IN  _encode_object_fields(Tail(keys), opts, w1, depth + 1)

\* the names encode accepts for a delimiter
ResolveDelimiter(d) ==
    IF d = "comma" THEN COMMA ELSE IF d = "tab" THEN TAB ELSE IF d = "pipe" THEN PIPE ELSE d

\* opts: the caller's options with every key present
encode(val, opts) ==
    LET normalized == normalize_value(val)
        resolved == [indent |-> opts.indent,
                     delimiter |-> ResolveDelimiter(opts.delimiter),
                     lengthMarker |-> opts.lengthMarker]
        writer == LineWriter(resolved.indent)
    IN  to_string(_encode_value(normalized, resolved, writer, 0))

-----------------------------------------------------------------------------
(* Decoder *)

\* ParsedLine.is_blank
is_blank(line) == Strip(line.content) = <<>>

\* One ParsedLine per line of the input.  The strict flag is accepted and
\* never read, and blank_lines_info stays empty, as in the code.
_to_parsed_lines(input_str, indent_size, strict) ==
    LET lines == Split(input_str, NEWLINE) IN
    [i \in DOMAIN lines |->
        LET raw == lines[i] IN
        IF Strip(raw) = <<>>
        THEN [raw |-> raw, depth |-> 0, indent |-> 0, content |-> <<>>, line_num |-> i]
        ELSE LET indent == Len(raw) - Len(LStrip(raw))
                 depth == IF indent_size > 0 THEN indent \div indent_size ELSE indent
             IN  [raw |-> raw, depth |-> depth, indent |-> indent, content |-> LStrip(raw),
                  line_num |-> i]]

\* the key as a "str" value, or the error raised
_parse_key(key_str0) ==
    LET key_str == Strip(key_str0) IN
    IF StartsWith(key_str, <<DOUBLE_QUOTE>>)
    THEN IF ~EndsWith(key_str, <<DOUBLE_QUOTE>>) \/ Len(key_str) < 2
         THEN Raise("Unterminated quoted key")
         ELSE unescape_string(SubSeq(key_str, 2, Len(key_str) - 1))
    ELSE VStr(key_str)

_parse_primitive(token0) ==
    LET token == Strip(token0) IN
    IF StartsWith(token, <<DOUBLE_QUOTE>>)
    THEN IF ~EndsWith(token, <<DOUBLE_QUOTE>>) \/ Len(token) < 2
         THEN Raise("Unterminated string: missing closing quote")
         ELSE unescape_string(SubSeq(token, 2, Len(token) - 1))
    ELSE IF is_boolean_or_null_literal(token)
    THEN IF token = TRUE_LITERAL THEN VBool(TRUE)
         ELSE IF token = FALSE_LITERAL THEN VBool(FALSE)
         ELSE VNull
    ELSE IF token # <<>> /\ is_numeric_literal(token)
    THEN IF ~Contains(token, ".") /\ ~Contains(Lower(token), "e")
         THEN \* int(token) raises ValueError for inf and nan: pass
              IF IntAccepts(token) THEN VInt(IntValue(token)) ELSE VStr(token)
         ELSE FloatValue(token)
    ELSE VStr(token)

SplitAt(line, colon_idx) ==
    IF colon_idx = -1 THEN Raise("Missing colon after key")
    ELSE [t |-> "kv", key |-> Strip(Slice(line, 0, colon_idx)),
          val |-> Strip(From(line, colon_idx + 1))]

\* (key, value), or the error raised
_split_key_value(line) == SplitAt(line, find_unquoted_char(line, COLON, 0))

NoHeader == [t |-> "none"]

RECURSIVE ParseKeys(_, _)
ParseKeysNext(tokens, acc, k) ==
    IF IsErr(k) THEN k ELSE ParseKeys(Tail(tokens), Append(acc, k.v))

\* [_parse_key(f.strip()) for f in field_tokens]: Some(keys), or the first error
ParseKeys(tokens, acc) ==
    IF tokens = <<>> THEN Some(acc)
    ELSE ParseKeysNext(tokens, acc, _parse_key(Strip(Head(tokens))))

\* The steps of _parse_header, last first.  Each takes what the code has bound
\* so far.  fields: None, Some(keys), or the error _parse_key raised.
HeaderColon(key, length, delimiter, fields, after_bracket) ==
    IF IsErr(fields) THEN fields
    ELSE IF ~StartsWith(after_bracket, <<COLON>>) THEN NoHeader
    ELSE [t |-> "header", key |-> key, length |-> length, delimiter |-> delimiter,
          fields |-> fields]

HeaderFieldsTo(key, length, delimiter, after_bracket, brace_end) ==
    IF brace_end = -1 THEN Raise("Unterminated fields segment")
    ELSE HeaderColon(key, length, delimiter,
                     ParseKeys(parse_delimited_values(Slice(after_bracket, 1, brace_end), delimiter),
                               <<>>),
                     Strip(From(after_bracket, brace_end + 1)))

HeaderFields(key, length, delimiter, after_bracket) ==
    IF StartsWith(after_bracket, <<OPEN_BRACE>>)
    THEN HeaderFieldsTo(key, length, delimiter, after_bracket,
                        find_unquoted_char(after_bracket, CLOSE_BRACE, 0))
    ELSE HeaderColon(key, length, delimiter, None, after_bracket)

HeaderLength(line, key, bracket_end, delimiter, length_str) ==
    IF ~IntAccepts(length_str) THEN NoHeader
    ELSE HeaderFields(key, IntValue(length_str), delimiter, Strip(From(line, bracket_end + 1)))

HeaderDelimiter(line, key, bracket_end, bracket_content) ==
    HeaderLength(line, key, bracket_end,
                 IF EndsWith(bracket_content, <<TAB>>) THEN TAB
                 ELSE IF EndsWith(bracket_content, <<PIPE>>) THEN PIPE
                 ELSE COMMA,
                 IF \E d \in {TAB, PIPE, COMMA} : EndsWith(bracket_content, <<d>>)
                 THEN SubSeq(bracket_content, 1, Len(bracket_content) - 1)
                 ELSE bracket_content)

HeaderMarker(line, key, bracket_end, bracket_content) ==
    HeaderDelimiter(line, key, bracket_end,
                    IF StartsWith(bracket_content, <<"#">>) THEN From(bracket_content, 1)
                    ELSE bracket_content)

HeaderBracket(line, bracket_start, key, bracket_end) ==
    IF IsErr(key) THEN key
    ELSE IF bracket_end = -1 THEN NoHeader
    ELSE HeaderMarker(line, key, bracket_end, Slice(line, bracket_start + 1, bracket_end))

\* key = _parse_key(key_part): Some(key), or the error raised
HeaderKeyOf(k) == IF IsErr(k) THEN k ELSE Some(k.v)

HeaderKey(line, bracket_start, key_part) ==
    HeaderBracket(line, bracket_start,
                  IF bracket_start > 0 /\ key_part # <<>> THEN HeaderKeyOf(_parse_key(key_part))
                  ELSE None,
                  find_unquoted_char(line, CLOSE_BRACKET, bracket_start))

HeaderStart(line, bracket_start) ==
    IF bracket_start = -1 THEN NoHeader
    ELSE HeaderKey(line, bracket_start, Strip(Slice(line, 0, bracket_start)))

HeaderStripped(line) == HeaderStart(line, find_unquoted_char(line, OPEN_BRACKET, 0))

\* NoHeader (the code's None), the error raised, or
\* [t |-> "header", key: Optional[str], length, delimiter, fields: Optional[list]]
_parse_header(line) == HeaderStripped(Strip(line))

RowFound(f, delimiter) == IF f.pos = -1 THEN TRUE ELSE f.char = delimiter

_is_row_line(line, delimiter) == RowFound(find_first_unquoted(line, {delimiter, COLON}), delimiter)

RECURSIVE ParsePrimitives(_, _)
ParsePrimitivesNext(tokens, acc, p) ==
    IF IsErr(p) THEN p ELSE ParsePrimitives(Tail(tokens), Append(acc, p))

\* [_parse_primitive(token) for token in tokens]: the values, or the first error
ParsePrimitives(tokens, acc) ==
    IF tokens = <<>> THEN [t |-> "vals", v |-> acc]
    ELSE ParsePrimitivesNext(tokens, acc, _parse_primitive(Head(tokens)))

\* the values parsed, with no length check
InlineUncounted(vals, expected_length, strict) ==
    IF IsErr(vals) THEN vals ELSE VArrDeclared(vals.v, expected_length)

\* the length check of _decode_inline_array on the values parsed
InlineCounted(vals, expected_length, strict) ==
    IF IsErr(vals) THEN vals
    ELSE IF strict /\ Len(vals.v) # expected_length THEN Raise("Expected N values")
    ELSE VArrDeclared(vals.v, expected_length)

\* the array, or the error raised
_decode_inline_array(content, delimiter, expected_length, strict) ==
    IF content = <<>> /\ expected_length = 0 THEN VArrDeclared(<<>>, expected_length)
    ELSE InlineCounted(ParsePrimitives(parse_delimited_values(content, delimiter), <<>>),
                       expected_length, strict)

RECURSIVE ZipRow(_, _, _, _)
\* {fields[j]: values[j] for j in range(min(len(fields), len(values)))}
ZipRow(fields, vals, j, acc) ==
    IF j > Len(fields) \/ j > Len(vals) THEN acc
    ELSE ZipRow(fields, vals, j + 1, DictSet(acc, fields[j], vals[j]))

\* A decoder that returns (value, next index) returns [v |-> value, i |-> index],
\* with an error as v when it raises.
Ret(v, i) == [v |-> v, i |-> i]

RECURSIVE _decode_tabular_loop(_, _, _, _, _, _, _, _)

\* after the while loop of _decode_tabular_array
TabularDone(i, expected_length, strict, res) ==
    IF strict /\ Len(res) # expected_length
    THEN Ret(Raise("Expected N rows"), i)
    ELSE Ret(VArrDeclared(res, expected_length), i)

\* a row line whose cells parsed to vals
TabularRow(lines, i, row_depth, fields, delimiter, expected_length, strict, res, vals) ==
    IF IsErr(vals) THEN Ret(vals, i)
    ELSE IF strict /\ Len(vals.v) # Len(fields) THEN Ret(Raise("Expected N values in row"), i)
    ELSE _decode_tabular_loop(lines, i + 1, row_depth, fields, delimiter, expected_length, strict,
                              Append(res, VObj(ZipRow(fields, vals.v, 1, <<>>))))

\* the while loop of _decode_tabular_array from index i (0-based) with result
_decode_tabular_loop(lines, i, row_depth, fields, delimiter, expected_length, strict, res) ==
    LET done == TabularDone(i, expected_length, strict, res) IN
    IF i >= Len(lines) THEN done
    ELSE IF is_blank(lines[i + 1])
    THEN IF strict
         THEN IF lines[i + 1].depth >= row_depth
              THEN Ret(Raise("Blank lines not allowed inside arrays"), i)
              ELSE done
         ELSE _decode_tabular_loop(lines, i + 1, row_depth, fields, delimiter, expected_length,
                                   strict, res)
    ELSE IF lines[i + 1].depth < row_depth THEN done
    ELSE IF lines[i + 1].depth > row_depth THEN done
    ELSE IF _is_row_line(lines[i + 1].content, delimiter)
    THEN TabularRow(lines, i, row_depth, fields, delimiter, expected_length, strict, res,
                    ParsePrimitives(parse_delimited_values(lines[i + 1].content, delimiter), <<>>))
    ELSE done

_decode_tabular_array(lines, start_idx, header_depth, fields, delimiter, expected_length, strict) ==
    _decode_tabular_loop(lines, start_idx, header_depth + 1, fields, delimiter, expected_length,
                         strict, <<>>)

RECURSIVE SkipWhileDeeper(_, _, _)
\* while i < len(lines) and lines[i].depth > depth: i += 1
SkipWhileDeeper(lines, i, depth) ==
    IF i < Len(lines) /\ lines[i + 1].depth > depth THEN SkipWhileDeeper(lines, i + 1, depth) ELSE i

RECURSIVE _decode_object(_, _, _, _)
RECURSIVE _decode_object_loop(_, _, _, _, _)
RECURSIVE _decode_list_loop(_, _, _, _, _, _)
RECURSIVE _decode_item_fields(_, _, _, _, _)
RECURSIVE _decode_array_from_header(_, _, _, _, _)

\* (obj_item, i) as the inner while loop of _decode_list_array leaves them
ItemStop(obj_item, i) == [t |-> "item", obj |-> obj_item, i |-> i]

\* obj_item[field_key] = val; i = next_i; a ToonDecodeError raised for val
\* only ends the loop
ItemAssign(lines, i, field_depth, strict, obj_item, field_key, val, next_i) ==
    IF IsErr(val) THEN ItemStop(obj_item, i)
    ELSE _decode_item_fields(lines, next_i, field_depth, strict, DictSet(obj_item, field_key, val))

ItemKeyed(lines, i, field_depth, strict, obj_item, kv, field_key) ==
    IF IsErr(field_key) THEN ItemStop(obj_item, i)
    ELSE ItemAssign(lines, i, field_depth, strict, obj_item, field_key.v,
                    IF kv.val = <<>> THEN _decode_object(lines, i + 1, lines[i + 1].depth, strict)
                    ELSE _parse_primitive(kv.val),
                    IF kv.val = <<>> THEN SkipWhileDeeper(lines, i + 1, lines[i + 1].depth)
                    ELSE i + 1)

ItemSplit(lines, i, field_depth, strict, obj_item, kv) ==
    IF IsErr(kv) THEN ItemStop(obj_item, i)
    ELSE ItemKeyed(lines, i, field_depth, strict, obj_item, kv, _parse_key(kv.key))

\* the inner while loop of _decode_list_array, which reads the further fields
\* of an object item
_decode_item_fields(lines, i, field_depth, strict, obj_item) ==
    IF ~(i < Len(lines) /\ lines[i + 1].depth = field_depth) THEN ItemStop(obj_item, i)
    ELSE IF is_blank(lines[i + 1])
    THEN _decode_item_fields(lines, i + 1, field_depth, strict, obj_item)
    ELSE ItemSplit(lines, i, field_depth, strict, obj_item, _split_key_value(lines[i + 1].content))

\* after the while loop of _decode_list_array
ListDone(i, expected_length, strict, res) ==
    IF strict /\ Len(res) # expected_length
    THEN Ret(Raise("Expected N items"), i)
    ELSE Ret(VArrDeclared(res, expected_length), i)

\* result.append(val); i = next_i; an error raised for val leaves the function
ListAppended(lines, i, item_depth, expected_length, strict, res, val, next_i) ==
    IF IsErr(val) THEN Ret(val, i)
    ELSE _decode_list_loop(lines, next_i, item_depth, expected_length, strict, Append(res, val))

\* The try block of _decode_list_array for the item on line i: the object item
\* and the index after it, or the ToonDecodeError raised.
ListTryFirst(lines, i, strict, key, val, next_i) ==
    IF IsErr(val) THEN val
    ELSE _decode_item_fields(lines, next_i, lines[i + 1].depth + 1, strict, <<<<key, val>>>>)

ListTryKeyed(lines, i, strict, kv, key) ==
    IF IsErr(key) THEN key
    ELSE ListTryFirst(lines, i, strict, key.v,
                      IF kv.val = <<>>
                      THEN _decode_object(lines, i + 1, lines[i + 1].depth + 1, strict)
                      ELSE _parse_primitive(kv.val),
                      IF kv.val = <<>> THEN SkipWhileDeeper(lines, i + 1, lines[i + 1].depth + 1)
                      ELSE i + 1)

ListTry(lines, i, strict, kv) ==
    IF IsErr(kv) THEN kv ELSE ListTryKeyed(lines, i, strict, kv, _parse_key(kv.key))

\* the end of the try block, or the except block
ListTried(lines, i, item_depth, expected_length, strict, res, item_content, item) ==
    ListAppended(lines, i, item_depth, expected_length, strict, res,
                 IF ~IsErr(item) THEN VObj(item.obj)
                 ELSE IF item_content = <<>> THEN VObj(<<>>)
                 ELSE _parse_primitive(item_content),
                 IF ~IsErr(item) THEN item.i ELSE i + 1)

ListItem(lines, i, item_depth, expected_length, strict, res, item_content, item_header) ==
    LET colon_idx == Find(item_content, COLON)
        inline_part == Strip(From(item_content, colon_idx + 1))
    IN
    IF IsErr(item_header) THEN Ret(item_header, i)
    ELSE IF /\ item_header.t = "header"
            /\ ~item_header.key.some
            /\ colon_idx # -1
            /\ (inline_part # <<>> \/ item_header.length = 0)
    THEN ListAppended(lines, i, item_depth, expected_length, strict, res,
                      _decode_inline_array(inline_part, item_header.delimiter, item_header.length,
                                           strict),
                      i + 1)
    ELSE ListTried(lines, i, item_depth, expected_length, strict, res, item_content,
                   ListTry(lines, i, strict, _split_key_value(item_content)))

ListContent(lines, i, item_depth, expected_length, strict, res, item_content) ==
    ListItem(lines, i, item_depth, expected_length, strict, res, item_content,
             _parse_header(item_content))

\* the while loop of _decode_list_array from index i (0-based) with result
_decode_list_loop(lines, i, item_depth, expected_length, strict, res) ==
    LET done == ListDone(i, expected_length, strict, res) IN
    IF i >= Len(lines) THEN done
    ELSE IF is_blank(lines[i + 1])
    THEN IF strict
         THEN IF lines[i + 1].depth >= item_depth
              THEN Ret(Raise("Blank lines not allowed inside arrays"), i)
              ELSE done
         ELSE _decode_list_loop(lines, i + 1, item_depth, expected_length, strict, res)
    ELSE IF lines[i + 1].depth < item_depth THEN done
    ELSE IF ~StartsWith(lines[i + 1].content, LIST_ITEM_PREFIX) THEN done
    ELSE ListContent(lines, i, item_depth, expected_length, strict, res,
                     Strip(From(lines[i + 1].content, Len(LIST_ITEM_PREFIX))))

_decode_list_array(lines, start_idx, header_depth, delimiter, expected_length, strict) ==
    _decode_list_loop(lines, start_idx, header_depth + 1, expected_length, strict, <<>>)

\* _, inline_content = _split_key_value(header_line), "" when it raises
InlineContent(kv) == IF IsErr(kv) THEN <<>> ELSE kv.val

ArrayDispatch(lines, header_idx, header_depth, header_info, strict, inline_content) ==
    IF \/ inline_content # <<>>
       \/ ((~header_info.fields.some \/ header_info.fields.v = <<>>) /\ header_info.length = 0)
    THEN Ret(_decode_inline_array(inline_content, header_info.delimiter, header_info.length, strict),
             header_idx + 1)
    ELSE IF header_info.fields.some
    THEN _decode_tabular_array(lines, header_idx + 1, header_depth, header_info.fields.v,
                               header_info.delimiter, header_info.length, strict)
    ELSE _decode_list_array(lines, header_idx + 1, header_depth, header_info.delimiter,
                            header_info.length, strict)

_decode_array_from_header(lines, header_idx, header_depth, header_info, strict) ==
    ArrayDispatch(lines, header_idx, header_depth, header_info, strict,
                  InlineContent(_split_key_value(lines[header_idx + 1].content)))

\* result[key] = val; i = next_i; an error raised for val leaves the function
ObjectAssign(lines, expected_depth, strict, res, key, val, next_i) ==
    IF IsErr(val) THEN val
    ELSE _decode_object_loop(lines, next_i, expected_depth, strict, DictSet(res, key, val))

ObjectKeyed(lines, i, expected_depth, strict, res, kv, key) ==
    IF IsErr(key) THEN key
    ELSE ObjectAssign(lines, expected_depth, strict, res, key.v,
                      IF kv.val = <<>> THEN _decode_object(lines, i + 1, lines[i + 1].depth, strict)
                      ELSE _parse_primitive(kv.val),
                      IF kv.val = <<>> THEN SkipWhileDeeper(lines, i + 1, lines[i + 1].depth)
                      ELSE i + 1)

ObjectSplit(lines, i, expected_depth, strict, res, kv) ==
    IF IsErr(kv)
    THEN IF strict THEN kv
         ELSE _decode_object_loop(lines, i + 1, expected_depth, strict, res)
    ELSE ObjectKeyed(lines, i, expected_depth, strict, res, kv, _parse_key(kv.key))

ObjectArray(lines, expected_depth, strict, res, key, arr) ==
    ObjectAssign(lines, expected_depth, strict, res, key, arr.v, arr.i)

ObjectLine(lines, i, expected_depth, strict, res, header_info) ==
    IF IsErr(header_info) THEN header_info
    ELSE IF header_info.t = "header" /\ header_info.key.some
    THEN ObjectArray(lines, expected_depth, strict, res, header_info.key.v,
                     _decode_array_from_header(lines, i, lines[i + 1].depth, header_info, strict))
    ELSE ObjectSplit(lines, i, expected_depth, strict, res, _split_key_value(lines[i + 1].content))

\* the while loop of _decode_object from index i (0-based) with result
_decode_object_loop(lines, i, expected_depth, strict, res) ==
    IF i >= Len(lines) THEN VObj(res)
    ELSE IF is_blank(lines[i + 1])
    THEN _decode_object_loop(lines, i + 1, expected_depth, strict, res)
    ELSE IF lines[i + 1].depth < expected_depth THEN VObj(res)
    ELSE IF lines[i + 1].depth > expected_depth
    THEN _decode_object_loop(lines, i + 1, expected_depth, strict, res)
    ELSE ObjectLine(lines, i, expected_depth, strict, res, _parse_header(lines[i + 1].content))

_decode_object(lines, start_idx, parent_depth, strict) ==
    _decode_object_loop(lines, start_idx, IF start_idx = 0 THEN parent_depth ELSE parent_depth + 1,
                        strict, <<>>)

\* The steps of decode, last first.
DecodeFirst(lines, strict, first_line, only, header_info) ==
    IF IsErr(header_info) THEN header_info
    ELSE IF header_info.t = "header" /\ ~header_info.key.some
    THEN _decode_array_from_header(lines, 0, 0, header_info, strict).v
    ELSE IF only /\ header_info.t = "none" /\ IsErr(_split_key_value(first_line.content))
    THEN _parse_primitive(first_line.content)
    ELSE _decode_object(lines, 0, 0, strict)

DecodeFirstLine(lines, strict, first_line, only) ==
    DecodeFirst(lines, strict, first_line, only, _parse_header(first_line.content))

\* non_blank: the indices of non_blank_lines
DecodeNonBlank(lines, strict, non_blank) ==
    IF non_blank = {} THEN VObj(<<>>)
    ELSE DecodeFirstLine(lines, strict,
                         lines[CHOOSE i \in non_blank : \A j \in non_blank : i <= j],
                         Cardinality(non_blank) = 1)

DecodeLines(lines, strict) ==
    DecodeNonBlank(lines, strict, {i \in DOMAIN lines : ~is_blank(lines[i])})

\* the lines with their content stripped
StripContents(parsed_lines) ==
    [i \in DOMAIN parsed_lines |->
        [parsed_lines[i] EXCEPT !.content = Strip(parsed_lines[i].content)]]

\* opts: the caller's DecodeOptions (indent, strict)
decode(input_str, opts) ==
    DecodeLines(StripContents(_to_parsed_lines(input_str, opts.indent, opts.strict)), opts.strict)

-----------------------------------------------------------------------------
(* Structural equality of values, as Python's == decides it: dicts compare  *)
(* without regard to key order, and bool, int and float compare by number.  *)

IsNumber(a) == a.t \in {"bool", "int", "float"}

\* a number as <<mantissa, exponent>> with no zero at the end of the mantissa
NumberOf(a) ==
    LET f == IF a.t = "bool" THEN NormFloat(IF a.v THEN 1 ELSE 0, 0)
             ELSE IF a.t = "int" THEN NormFloat(a.v, 0)
             ELSE NormFloat(a.m, a.e)
    IN  <<f.m, f.e>>

RECURSIVE PyEq(_, _)
PyEq(a, b) ==
    IF IsNumber(a) /\ IsNumber(b) THEN NumberOf(a) = NumberOf(b)
    ELSE IF a.t # b.t THEN FALSE
    ELSE IF a.t = "null" THEN TRUE
    ELSE IF a.t = "str" THEN a.v = b.v
    ELSE IF a.t = "arr"
    THEN Len(a.v) = Len(b.v) /\ \A i \in DOMAIN a.v : PyEq(a.v[i], b.v[i])
    ELSE IF a.t = "obj"
    THEN /\ Len(a.v) = Len(b.v)
         /\ \A i \in DOMAIN a.v :
               HasKey(b.v, a.v[i][1]) /\ PyEq(a.v[i][2], Lookup(b.v, a.v[i][1]))
    ELSE FALSE

-----------------------------------------------------------------------------
(* The codec as a state machine: a caller holds a value, encodes it to     *)
(* text, and decodes text to a result.                                      *)

\* DecodeOptions.indent and ResolvedEncodeOptions.indent
DefaultIndent == 2

DefaultOptions ==
    [indent |-> DefaultIndent, delimiter |-> DEFAULT_DELIMITER, lengthMarker |-> <<>>,
     strict |-> TRUE]

NoValue == [t |-> "none"]
NoResult == [t |-> "none"]

\* encode storing the normalized value and the resolved delimiter in the
\* caller's value and options
EncodeInPlace ==
    /\ pc = "start"
    /\ text' = encode(value, options)
    /\ value' = normalize_value(value)
    /\ options' = [options EXCEPT !.delimiter = ResolveDelimiter(options.delimiter)]
    /\ pc' = "text"
    /\ UNCHANGED <<result, calls, writers, signature, completion, raised, demos, inputs, messages>>

\* text = encode(value, options)
Encode ==
    /\ pc = "start"
    /\ text' = encode(value, options)
    /\ pc' = "text"
    /\ UNCHANGED <<value, options, result, calls, writers, signature, completion, raised, demos, inputs, messages>>

\* result = decode(text, DecodeOptions(indent, strict)), an error when it raises
Decode ==
    /\ pc = "text"
    /\ result' = decode(text, options)
    /\ pc' = "decoded"
    /\ UNCHANGED <<value, options, text, calls, writers, signature, completion, raised, demos, inputs, messages>>

-----------------------------------------------------------------------------
(* Round trips of values *)

\* most elements of a generated array, most fields of a generated object
MaxLen == 2

KeyPool == << <<"k">>, <<"v">>, <<"w">>, <<"u">> >>

Prims == {VInt(1), VBool(TRUE), VStr(<<"x">>)}

SeqsUpTo(S, n) == UNION {[1..m -> S] : m \in 0..n}
ArraysOf(S, n) == {VArr(s) : s \in SeqsUpTo(S, n)}
ObjectsOf(S, n) == {VObj([i \in DOMAIN s |-> <<KeyPool[i], s[i]>>]) : s \in SeqsUpTo(S, n)}

\* values nested one and two deep, with at most n elements or fields each
Level1(n) == Prims \cup ArraysOf(Prims, n) \cup ObjectsOf(Prims, n)
Level2(n) == Level1(n) \cup ArraysOf(Level1(n), n) \cup ObjectsOf(Level1(n), n)

\* {"items": [{"k": 1, "v": [true, false]}, "x"]}
ItemsExample ==
    VObj(<< << <<"i", "t", "e", "m", "s">>,
               VArr(<< VObj(<< << <<"k">>, VInt(1) >>,
                               << <<"v">>, VArr(<<VBool(TRUE), VBool(FALSE)>>) >> >>),
                       VStr(<<"x">>) >>) >> >>)

\* lists that hold an object beside a primitive, and the same under a key
MixedLists(n) == {VArr(<<o, VStr(<<"x">>)>>) : o \in ObjectsOf(Level1(n), n)}

RoundTripValues(n) ==
    Level2(n) \cup MixedLists(n) \cup {VObj(<< << <<"k">>, l >> >>) : l \in MixedLists(n)}
        \cup {ItemsExample}

Init ==
    /\ pc = "start"
    /\ value \in RoundTripValues(MaxLen)
    /\ options = DefaultOptions
    /\ text = <<>>
    /\ result = NoResult
    /\ calls = <<>>
    /\ writers = <<>>
    /\ signature = <<>>
    /\ completion = <<>>
    /\ raised = NoResult
    /\ demos = <<>>
    /\ inputs = <<>>
    /\ messages = <<>>

Next == Encode \/ Decode

Spec == Init /\ [][Next]_vars

(* C1: round trip.  For every normalized value v, decode(encode(v)) with    *)
(* default options on both sides is structurally equal to v.                *)
RoundTrip == pc = "decoded" => ~IsErr(result) /\ PyEq(result, normalize_value(value))

\* the list a generated value holds: the value itself, or the value of its only field
ListOf(v) == IF v.t = "arr" THEN v ELSE IF v.t = "obj" /\ Len(v.v) = 1 THEN v.v[1][2] ELSE v

\* v holds a list encoded in mixed form whose first element is an object with
\* a primitive first field and an array in field j
ArrayFieldAfterPrimitive(v, j) ==
    LET l == ListOf(v) IN
    /\ l.t = "arr" /\ Len(l.v) = 2
    /\ ~is_json_object(l.v[2])
    /\ is_json_object(l.v[1])
    /\ j \in 2..Len(l.v[1].v)
    /\ is_json_primitive(l.v[1].v[1][2])
    /\ is_json_array(l.v[1].v[j][2])

\* r has the shape of v down to field j of the first list element, and that
\* field is stored under its original key with the original array
ArrayFieldKept(v, r, j) ==
    LET l == ListOf(v)
        m == ListOf(r)
        k == l.v[1].v[j][1]
    IN  /\ ~IsErr(r) /\ r.t = v.t
        /\ (v.t = "obj" => Len(r.v) = 1 /\ r.v[1][1] = v.v[1][1])
        /\ m.t = "arr" /\ Len(m.v) = 2
        /\ m.v[1].t = "obj"
        /\ HasKey(m.v[1].v, k)
        /\ PyEq(Lookup(m.v[1].v, k), l.v[1].v[j][2])

(* C3: mixed-list object items mirror the encoder.  When an element of a    *)
(* mixed list is an object whose first field is primitive and a later field *)
(* is an array, strict decode of the encoder's output returns that element  *)
(* with the field under its original key holding the original array.        *)
MixedItemArrayFieldKept ==
    \A j \in 2..MaxLen :
        pc = "decoded" /\ options.strict /\ ArrayFieldAfterPrimitive(value, j)
            => ArrayFieldKept(value, result, j)

(* C4: the strict decoder accepts everything the encoder emits.  For every  *)
(* normalized value v, decode(encode(v)) in strict mode with the same       *)
(* indent does not raise.                                                   *)
StrictAcceptsEncoded == pc = "decoded" /\ options.strict => ~IsErr(result)

-----------------------------------------------------------------------------
(* Round trips of strings *)

\* longest generated string
MaxStrLen == 3

StrAlphabet == {"a", "5", "0", "+", "-", ".", "e", "_", " ", ":", ",", "\"", "\\"}

LiteralStrings ==
    { TRUE_LITERAL, FALSE_LITERAL, NULL_LITERAL,
      <<"T", "R", "U", "E">>, <<"N", "u", "l", "l">>,
      <<"i", "n", "f">>, <<"n", "a", "n">>, <<"1", "e", "+", "5">>, <<"-", "5", ".", "0">> }

Strings == SeqsUpTo(StrAlphabet, MaxStrLen) \cup LiteralStrings

InitStr ==
    /\ pc = "start"
    /\ value \in {VStr(s) : s \in Strings}
    /\ options = DefaultOptions
    /\ text = <<>>
    /\ result = NoResult
    /\ calls = <<>>
    /\ writers = <<>>
    /\ signature = <<>>
    /\ completion = <<>>
    /\ raised = NoResult
    /\ demos = <<>>
    /\ inputs = <<>>
    /\ messages = <<>>

SpecStr == InitStr /\ [][Next]_vars

(* C5: safe-unquoted fixed point.  For every string s for which             *)
(* is_safe_unquoted(s, ",") is true, decode(encode(s)) returns the string s *)
(* itself, not a number, boolean or null.                                   *)
SafeUnquotedFixedPoint ==
    pc = "decoded" /\ value.t = "str" /\ is_safe_unquoted(value.v, COMMA)
        => result.t = "str" /\ result.v = value.v

-----------------------------------------------------------------------------
(* Documents written by hand: a caller starts from a first line, appends    *)
(* lines, and decodes.                                                      *)

CountChar(s, c) == Cardinality({i \in DOMAIN s : s[i] = c})
NumLines(s) == CountChar(s, NEWLINE) + 1

\* text += "\n" + l for a line l of vocab, while the text has fewer than max lines
AppendLine(vocab, max) ==
    /\ pc = "text"
    /\ NumLines(text) < max
    /\ \E l \in vocab : text' = text \o <<NEWLINE>> \o l
    /\ UNCHANGED <<pc, value, options, result, calls, writers,
                    signature, completion, raised, demos, inputs, messages>>

-----------------------------------------------------------------------------
(* Arrays under headers that declare a length *)

\* most lines of a document with a declared length
MaxLines == 3
\* largest declared length drawn
MaxCount == 2

FruitsExample == <<"f", "r", "u", "i", "t", "s", "[", "3", "]", ":", " ", "a", "p", "p", "l", "e", ",", "b", "a", "n", "a", "n", "a">>

\* header lines: an optional key, a declared length, an optional field clause,
\* and inline values or none
LenFirstLines ==
    { format_header(k, n, f, COMMA, <<>>) \o inl :
        k \in {None, Some(<<"k">>)},
        n \in 0..MaxCount,
        f \in {<<>>, << <<"a">> >>, << <<"a">>, <<"b">> >>},
        inl \in {<<>>, <<" ", "a">>, <<" ", "a", ",", "b">>} }
    \cup {FruitsExample}

\* rows, list items, a nested inline array with as many values as declared and
\* with more, a further field of an object item, and a header at depth 0
LenBodyLines ==
    { <<" ", " ", "1", ",", "2">>,
      <<" ", " ", "1">>,
      <<" ", " ", "-", " ", "1">>,
      <<" ", " ", "-", " ", "[", "2", "]", ":", " ", "a", ",", "b">>,
      <<" ", " ", "-", " ", "[", "1", "]", ":", " ", "a", ",", "b">>,
      <<" ", " ", "-", " ", "k", ":", " ", "1">>,
      <<" ", " ", " ", " ", "v", "[", "1", "]", ":", " ", "1", ",", "2">>,
      <<"k", "[", "0", "]", ":">> }

InitLen ==
    /\ pc = "text"
    /\ value = NoValue
    /\ options \in {[DefaultOptions EXCEPT !.strict = b] : b \in BOOLEAN}
    /\ text \in LenFirstLines
    /\ result = NoResult
    /\ calls = <<>>
    /\ writers = <<>>
    /\ signature = <<>>
    /\ completion = <<>>
    /\ raised = NoResult
    /\ demos = <<>>
    /\ inputs = <<>>
    /\ messages = <<>>

NextLen == AppendLine(LenBodyLines, MaxLines) \/ Decode

SpecLen == InitLen /\ [][NextLen]_vars

RECURSIVE ArraysAgree(_)
\* every array of v has as many elements as the header it was read under declared
ArraysAgree(v) ==
    IF v.t = "arr" THEN Len(v.v) = v.n /\ \A i \in DOMAIN v.v : ArraysAgree(v.v[i])
    ELSE IF v.t = "obj" THEN \A i \in DOMAIN v.v : ArraysAgree(v.v[i][2])
    ELSE TRUE

-----------------------------------------------------------------------------
(* One primitive token in each position where the decoder reads a primitive *)

\* longest token drawn from TokAlphabet
MaxTokLen == 3

\* a quote, a backslash, a letter that forms a known escape (\n), one that
\* forms an unknown escape (\q), and a plain letter
TokAlphabet == {DOUBLE_QUOTE, BACKSLASH, "n", "q", "x"}

LiteralTokens ==
    { <<"t", "r", "u", "e">>,
      <<"T", "r", "u", "e">>,
      <<"T", "R", "U", "E">>,
      <<"f", "a", "l", "s", "e">>,
      <<"F", "a", "l", "s", "e">>,
      <<"F", "A", "L", "S", "E">>,
      <<"n", "u", "l", "l">>,
      <<"N", "u", "l", "l">>,
      <<"N", "U", "L", "L">> }

Tokens == (SeqsUpTo(TokAlphabet, MaxTokLen) \ {<<>>}) \cup LiteralTokens

Positions == {"root", "field", "inline", "cell", "item", "first", "further"}

\* the document that holds tok in position pos
Template(pos, tok) ==
    IF pos = "root" THEN tok
    ELSE IF pos = "field" THEN <<"k", ":", " ">> \o tok
    ELSE IF pos = "inline" THEN <<"k", "[", "2", "]", ":", " ", "1", ",">> \o tok
    ELSE IF pos = "cell" THEN <<"k", "[", "1", "]", "{", "a", ",", "b", "}", ":", "\n", " ", " ">> \o tok \o <<",", "2">>
    ELSE IF pos = "item" THEN <<"k", "[", "1", "]", ":", "\n", " ", " ", "-", " ">> \o tok
    ELSE IF pos = "first" THEN <<"k", "[", "1", "]", ":", "\n", " ", " ", "-", " ", "a", ":", " ">> \o tok
    ELSE <<"k", "[", "1", "]", ":", "\n", " ", " ", "-", " ", "a", ":", " ", "1", "\n", " ", " ", " ", " ", "b", ":", " ">> \o tok

\* r[k] and r[i - 1] of a decoded value, NoResult where r has no such part
FieldOf(r, k) == IF r.t = "obj" /\ HasKey(r.v, k) THEN Lookup(r.v, k) ELSE NoResult
ElemOf(r, i) == IF r.t = "arr" /\ i <= Len(r.v) THEN r.v[i] ELSE NoResult

\* what the decoded document r holds in position pos
Got(pos, r) ==
    IF pos = "root" THEN r
    ELSE IF pos = "field" THEN FieldOf(r, <<"k">>)
    ELSE IF pos = "inline" THEN ElemOf(FieldOf(r, <<"k">>), 2)
    ELSE IF pos = "cell" THEN FieldOf(ElemOf(FieldOf(r, <<"k">>), 1), <<"a">>)
    ELSE IF pos = "item" THEN ElemOf(FieldOf(r, <<"k">>), 1)
    ELSE IF pos = "first" THEN FieldOf(ElemOf(FieldOf(r, <<"k">>), 1), <<"a">>)
    ELSE FieldOf(ElemOf(FieldOf(r, <<"k">>), 1), <<"b">>)

Token(tok) == [t |-> "token", v |-> tok]

InitTok ==
    /\ pc = "token"
    /\ \E tok \in Tokens : value = Token(tok) /\ text = tok
    /\ options \in {[DefaultOptions EXCEPT !.strict = b] : b \in BOOLEAN}
    /\ result = NoResult
    /\ calls = <<>>
    /\ writers = <<>>
    /\ signature = <<>>
    /\ completion = <<>>
    /\ raised = NoResult
    /\ demos = <<>>
    /\ inputs = <<>>
    /\ messages = <<>>

\* the caller writes the document around the token
Place(pos) ==
    /\ pc = "token"
    /\ text' = Template(pos, value.v)
    /\ pc' = "text"
    /\ UNCHANGED <<value, options, result, calls, writers, signature, completion, raised, demos, inputs, messages>>

NextTok == (\E pos \in Positions : Place(pos)) \/ Decode

SpecTok == InitTok /\ [][NextTok]_vars

(* C6: literal tokens are matched case-insensitively.  An unquoted token     *)
(* equal to true, false or null ignoring letter case decodes, in whatever    *)
(* position it stands, to true, false and null respectively.                 *)
LiteralsCaseInsensitive ==
    \A pos \in Positions :
        pc = "decoded" /\ value.t = "token" /\ text = Template(pos, value.v)
            => /\ Lower(value.v) = TRUE_LITERAL => Got(pos, result) = VBool(TRUE)
               /\ Lower(value.v) = FALSE_LITERAL => Got(pos, result) = VBool(FALSE)
               /\ Lower(value.v) = NULL_LITERAL => Got(pos, result) = VNull

\* the positions C7 names
ValuePositions == {"field", "inline", "cell", "first", "further"}

\* tok opens with a double quote and has no closing quote, or is quoted and
\* holds a backslash that does not start one of \\ \" \n \r \t
MalformedQuoted(tok) ==
    /\ StartsWith(tok, <<DOUBLE_QUOTE>>)
    /\ \/ Len(tok) < 2
       \/ ~EndsWith(tok, <<DOUBLE_QUOTE>>)
       \/ IsErr(unescape_string(SubSeq(tok, 2, Len(tok) - 1)))

(* C7: in strict mode a value token with an unterminated quote or an         *)
(* unknown escape makes the whole decode fail, as an object field value, an  *)
(* inline array element, a tabular cell, and the first or a further field    *)
(* of a mixed-list item.                                                     *)
StrictMalformedQuoteFails ==
    \A pos \in ValuePositions :
        /\ pc = "decoded" /\ options.strict /\ value.t = "token"
        /\ text = Template(pos, value.v)
        /\ MalformedQuoted(value.v)
        => IsErr(result)

-----------------------------------------------------------------------------
(* Documents of key-value lines, headers, rows, items and blank lines *)

\* most lines of such a document
MaxDocLines == 4

DocFirstLines ==
    { <<"k", ":", " ", "1">>,
      <<"k", ":">>,
      <<"k", "[", "1", "]", ":", " ", "3">>,
      <<"t", "[", "2", "]", "{", "a", ",", "b", "}", ":">>,
      <<"t", "[", "1", "]", "{", "a", ",", "b", "}", ":">>,
      <<"l", "[", "2", "]", ":">> }

\* lines keyed k at depth 0, lines with 0 to 3 leading spaces, a blank line, a row
\* and a list item
DocBodyLines ==
    { <<"k", ":", " ", "1">>,
      <<"k", ":", " ", "2">>,
      <<"k", "[", "1", "]", ":", " ", "3">>,
      <<"k", ":">>,
      <<"v", ":", " ", "1">>,
      <<" ", "v", ":", " ", "1">>,
      <<" ", " ", "v", ":", " ", "1">>,
      <<" ", " ", " ", "v", ":", " ", "1">>,
      <<>>,
      <<" ", " ", "1", ",", "2">>,
      <<" ", " ", "-", " ", "1">> }

InitDoc ==
    /\ pc = "text"
    /\ value = NoValue
    /\ options \in {[DefaultOptions EXCEPT !.strict = b] : b \in BOOLEAN}
    /\ text \in DocFirstLines
    /\ result = NoResult
    /\ calls = <<>>
    /\ writers = <<>>
    /\ signature = <<>>
    /\ completion = <<>>
    /\ raised = NoResult
    /\ demos = <<>>
    /\ inputs = <<>>
    /\ messages = <<>>

NextDoc == AppendLine(DocBodyLines, MaxDocLines) \/ Decode

SpecDoc == InitDoc /\ [][NextDoc]_vars

LinesOf(s) == Split(s, NEWLINE)

\* the lines of the vocabulary that carry the key k at depth 0: key-value lines
\* and an array header
KeyedLines ==
    { <<"k", ":", " ", "1">>,
      <<"k", ":", " ", "2">>,
      <<"k", "[", "1", "]", ":", " ", "3">>,
      <<"k", ":">> }

\* two lines of the root object body carry the key k
DuplicateKey(s) ==
    \E i, j \in DOMAIN LinesOf(s) : i < j /\ LinesOf(s)[i] \in KeyedLines /\ LinesOf(s)[j] \in KeyedLines

(* C8: in strict mode, decoding an object body in which the same key occurs  *)
(* twice at the same depth, as two key-value lines or as a key-value line    *)
(* and an array header, fails instead of returning an object.                *)
StrictRejectsDuplicateKey ==
    pc = "decoded" /\ options.strict /\ DuplicateKey(text) => IsErr(result)

\* some non-blank line of s has a leading-space count that is no multiple of n
BadIndent(s, n) ==
    \E i \in DOMAIN LinesOf(s) :
        /\ Strip(LinesOf(s)[i]) # <<>>
        /\ (Len(LinesOf(s)[i]) - Len(LStrip(LinesOf(s)[i]))) % n # 0

(* C9: in strict mode with indent_size > 0, decoding fails whenever some     *)
(* non-blank line has a leading-space count that is not a multiple of        *)
(* indent_size.                                                              *)
StrictRejectsBadIndent ==
    pc = "decoded" /\ options.strict /\ options.indent > 0 /\ BadIndent(text, options.indent)
        => IsErr(result)

\* a blank line stands between two rows of a tabular array or between two
\* items of a mixed-list array
BlankInsideArray(s) ==
    \E i \in DOMAIN LinesOf(s) :
        /\ i + 3 <= Len(LinesOf(s))
        /\ LinesOf(s)[i + 2] = <<>>
        /\ \/ /\ LinesOf(s)[i] \in {<<"t", "[", "2", "]", "{", "a", ",", "b", "}", ":">>, <<"t", "[", "1", "]", "{", "a", ",", "b", "}", ":">>}
              /\ LinesOf(s)[i + 1] = <<" ", " ", "1", ",", "2">>
              /\ LinesOf(s)[i + 3] = <<" ", " ", "1", ",", "2">>
           \/ /\ LinesOf(s)[i] = <<"l", "[", "2", "]", ":">>
              /\ LinesOf(s)[i + 1] = <<" ", " ", "-", " ", "1">>
              /\ LinesOf(s)[i + 3] = <<" ", " ", "-", " ", "1">>

(* C10: in strict mode, a blank line between two rows of a tabular array or  *)
(* between two items of a mixed-list array makes decode raise the error      *)
(* "Blank lines not allowed inside arrays".                                  *)
StrictBlankLineError ==
    pc = "decoded" /\ options.strict /\ BlankInsideArray(text)
        => result = Raise("Blank lines not allowed inside arrays")

-----------------------------------------------------------------------------
(* Arrays of objects whose keys come in any order *)

\* most objects of a generated array
MaxObjects == 2

OrderKeys == {<<"k">>, <<"v">>, <<"w">>}

OrderPrims == {VInt(1), VStr(<<"x">>)}

\* objects of one or two fields, the keys in every order
OrderedObjects ==
    {VObj(<< <<a, x>> >>) : a \in OrderKeys, x \in OrderPrims}
        \cup {VObj(<< <<ab[1], x>>, <<ab[2], VInt(2)>> >>) :
                ab \in {p \in OrderKeys \X OrderKeys : p[1] # p[2]}, x \in OrderPrims}

\* arrays of 1..n such objects, at the root and under a key
OrderValues(n) ==
    LET arrays == {VArr(s) : s \in SeqsUpTo(OrderedObjects, n) \ {<<>>}}
    IN  arrays \cup {VObj(<< << <<"k">>, a >> >>) : a \in arrays}

InitOrd ==
    /\ pc = "start"
    /\ value \in OrderValues(MaxObjects)
    /\ options = DefaultOptions
    /\ text = <<>>
    /\ result = NoResult
    /\ calls = <<>>
    /\ writers = <<>>
    /\ signature = <<>>
    /\ completion = <<>>
    /\ raised = NoResult
    /\ demos = <<>>
    /\ inputs = <<>>
    /\ messages = <<>>

SpecOrd == InitOrd /\ [][Next]_vars

RECURSIVE KeyOrderKept(_, _)
\* r has the shape of v, every object of r its keys in the order of v
KeyOrderKept(v, r) ==
    IF v.t = "obj"
    THEN /\ r.t = "obj"
         /\ Keys(r.v) = Keys(v.v)
         /\ \A i \in DOMAIN v.v : KeyOrderKept(v.v[i][2], r.v[i][2])
    ELSE IF v.t = "arr"
    THEN /\ r.t = "arr"
         /\ Len(r.v) = Len(v.v)
         /\ \A i \in DOMAIN v.v : KeyOrderKept(v.v[i], r.v[i])
    ELSE TRUE

(* C11: order preservation.  Every object of a normalized value v, objects  *)
(* of a tabular array included, has in decode(encode(v)) the key order it   *)
(* has in v, and array elements keep their positions.                       *)
OrderPreserved ==
    pc = "decoded" /\ ~IsErr(result) => KeyOrderKept(value, result)

-----------------------------------------------------------------------------
(* Arrays of every kind of element, under every delimiter and length marker *)

\* most elements of a generated array
MaxElems == 2

\* primitives, objects that are empty, uniform, of another key set, of another
\* key order or with a value that is not primitive, and arrays
Elements ==
    { VInt(1), VStr(<<"x">>),
      VObj(<<>>),
      VObj(<< << <<"k">>, VInt(1) >> >>),
      VObj(<< << <<"k">>, VStr(<<"x">>) >> >>),
      VObj(<< << <<"k">>, VInt(1) >>, << <<"v">>, VInt(1) >> >>),
      VObj(<< << <<"v">>, VInt(1) >>, << <<"k">>, VInt(1) >> >>),
      VObj(<< << <<"k">>, VArr(<<VInt(1)>>) >> >>),
      VObj(<< << <<"k">>, VObj(<<>>) >> >>),
      VArr(<<>>), VArr(<<VInt(1)>>) }

\* arrays of up to n elements, at the root and under the key k
ArrayValues(n) ==
    LET arrays == {VArr(s) : s \in SeqsUpTo(Elements, n)}
    IN  arrays \cup {VObj(<< << <<"k">>, a >> >>) : a \in arrays}

Delimiters == {COMMA, TAB, PIPE}
LengthMarkers == {<<>>, <<"#">>}

InitArr ==
    /\ pc = "start"
    /\ value \in ArrayValues(MaxElems)
    /\ options \in {[DefaultOptions EXCEPT !.delimiter = d, !.lengthMarker = m] :
                        d \in Delimiters, m \in LengthMarkers}
    /\ text = <<>>
    /\ result = NoResult
    /\ calls = <<>>
    /\ writers = <<>>
    /\ signature = <<>>
    /\ completion = <<>>
    /\ raised = NoResult
    /\ demos = <<>>
    /\ inputs = <<>>
    /\ messages = <<>>

SpecArr == InitArr /\ [][Next]_vars

\* the array that value is or holds
TheArray == IF value.t = "arr" THEN value.v ELSE value.v[1][2].v

LeadingSpaces(l) == Len(l) - Len(LStrip(l))

\* the lines after the header line
BodyLines(s) == Tail(LinesOf(s))

\* The form of an encoded array, read off the text: a lone header line, one
\* line of header and values, a header with a field clause over one row per
\* element, or a header over one dash line per element.
FormOf(s, n, indent) ==
    LET first == Head(LinesOf(s))
        body == BodyLines(s)
        clause == Contains(first, OPEN_BRACE)
        items == {i \in DOMAIN body :
                    LeadingSpaces(body[i]) = indent /\ StartsWith(LStrip(body[i]), LIST_ITEM_MARKER)}
        rows == {i \in DOMAIN body :
                    LeadingSpaces(body[i]) = indent /\ ~StartsWith(LStrip(body[i]), LIST_ITEM_MARKER)}
    IN  IF body = <<>> /\ ~clause /\ EndsWith(first, <<COLON>>) THEN "header"
        ELSE IF body = <<>> /\ ~clause THEN "inline"
        ELSE IF clause /\ EndsWith(first, <<CLOSE_BRACE, COLON>>) /\ Len(body) = n
                /\ rows = DOMAIN body
        THEN "tabular"
        ELSE IF ~clause /\ EndsWith(first, <<COLON>>) /\ Cardinality(items) = n
                /\ \A i \in DOMAIN body \ items : LeadingSpaces(body[i]) > indent
        THEN "mixed"
        ELSE "other"

OnlyPrimitives(arr) == \A i \in DOMAIN arr : arr[i].t \notin {"arr", "obj"}

\* all elements are objects with the key set of the first and primitive values
UniformObjects(arr) ==
    /\ arr # <<>>
    /\ \A i \in DOMAIN arr :
        /\ arr[i].t = "obj"
        /\ Range(Keys(arr[i].v)) = Range(Keys(arr[1].v))
        /\ OnlyPrimitives(Values(arr[i].v))

\* the form the selection rule names for arr, tabular when tabular holds
SelectedForm(arr, tabular) ==
    IF arr = <<>> THEN "header"
    ELSE IF OnlyPrimitives(arr) THEN "inline"
    ELSE IF tabular THEN "tabular"
    ELSE "mixed"

(* C12 as stated: an empty array is a header line only, an array of only    *)
(* primitives one inline line, a non-empty array of objects with identical  *)
(* key sets and primitive-only values a tabular block, every other array a  *)
(* mixed list.                                                              *)
FormSelectedAsStated ==
    pc = "text"
        => FormOf(text, Len(TheArray), options.indent)
             = SelectedForm(TheArray, UniformObjects(TheArray))

(* C12 amended: as stated, but the tabular block is written only when the   *)
(* shared key set is not empty; an array of empty objects is a mixed list.  *)
FormSelected ==
    pc = "text"
        => FormOf(text, Len(TheArray), options.indent)
             = SelectedForm(TheArray, UniformObjects(TheArray) /\ TheArray[1].v # <<>>)

\* a tabular block of two rows, and a mixed list of two empty objects
FormSelectedWitness ==
    /\ pc = "text"
    /\ Len(TheArray) = 2
    /\ UniformObjects(TheArray) /\ Len(TheArray[1].v) = 2
    /\ TheArray[1] # TheArray[2]
    /\ FormOf(text, 2, options.indent) = "tabular"

\* the key the array stands under, empty at the root
TheKey == IF value.t = "arr" THEN <<>> ELSE value.v[1][1]

\* the array is written as a tabular block
IsTabular(arr) == UniformObjects(arr) /\ arr[1].v # <<>>

\* the header C13 describes for the array of value under options
HeaderAsStated ==
    TheKey
        \o <<OPEN_BRACKET>> \o options.lengthMarker \o IntToStr(Len(TheArray))
        \o (IF options.delimiter = COMMA THEN <<>> ELSE <<options.delimiter>>)
        \o <<CLOSE_BRACKET>>
        \o (IF IsTabular(TheArray)
            THEN <<OPEN_BRACE>> \o Join(<<options.delimiter>>, Keys(TheArray[1].v)) \o <<CLOSE_BRACE>>
            ELSE <<>>)
        \o <<COLON>>

-----------------------------------------------------------------------------
(* Host values: lists, tuples, sets and mappings with keys of any kind *)

\* most elements of a generated list or tuple, most entries of a mapping
MaxHostLen == 2

HostPrims == {VNull, VBool(TRUE), VInt(0), VInt(2), VStr(<<"x">>), VStr(<<"2">>)}

VTuple(items) == [t |-> "tuple", v |-> items]
VSet(S) == [t |-> "set", v |-> S]
VMap(pairs) == [t |-> "map", v |-> pairs]

\* mappings of up to n entries with distinct keys from K and values from V
MapsOf(K, V, n) ==
    {VMap(m) : m \in {s \in SeqsUpTo(K \X V, n) :
                        \A i, j \in DOMAIN s : i # j => s[i][1] # s[j][1]}}

\* containers of primitives: lists, tuples, sets, mappings
HostContainers(n) ==
    {VArr(s) : s \in SeqsUpTo(HostPrims, n)}
        \cup {VTuple(s) : s \in SeqsUpTo(HostPrims, n)}
        \cup {VSet(S) : S \in SUBSET HostPrims}
        \cup MapsOf(HostPrims, {VInt(1), VStr(<<"x">>)}, n)

\* primitives, containers, and a container inside a list, a tuple or a mapping
HostValues(n) ==
    HostPrims \cup HostContainers(n)
        \cup {VArr(<<c>>) : c \in HostContainers(n)}
        \cup {VTuple(<<c, VInt(1)>>) : c \in HostContainers(n)}
        \cup {VMap(<< <<VInt(2), c>> >>) : c \in HostContainers(n)}

\* what encode accepts for the delimiter: a character or one of its names
HostOptions == {[DefaultOptions EXCEPT !.delimiter = d] : d \in {COMMA, "pipe"}}

InitHost ==
    /\ pc = "start"
    /\ value \in HostValues(MaxHostLen)
    /\ options \in HostOptions
    /\ text = <<>>
    /\ result = NoResult
    /\ calls = <<>>
    /\ writers = <<>>
    /\ signature = <<>>
    /\ completion = <<>>
    /\ raised = NoResult
    /\ demos = <<>>
    /\ inputs = <<>>
    /\ messages = <<>>

\* result = normalize_value(value); called again, on its own result
Normalize ==
    /\ pc \in {"start", "normalized"}
    /\ value' = (IF pc = "start" THEN value ELSE result)
    /\ result' = normalize_value(IF pc = "start" THEN value ELSE result)
    /\ pc' = (IF pc = "start" THEN "normalized" ELSE "renormalized")
    /\ UNCHANGED <<options, text, calls, writers, signature, completion, raised, demos, inputs, messages>>

NextHost == Normalize \/ Encode \/ Decode

SpecHost == InitHost /\ [][NextHost]_vars

(* C14: normalize is idempotent.  For every host value v built from None,   *)
(* booleans, integers, strings, lists, tuples, sets and mappings,           *)
(* normalize_value(normalize_value(v)) equals normalize_value(v).           *)
NormalizeIdempotent ==
    pc = "renormalized" => result = value /\ PyEq(result, value)

\* a set that sorts by repr and a mapping key that is no str were normalized twice
NormalizeIdempotentWitness ==
    /\ pc = "renormalized"
    /\ result = VObj(<< << <<"2">>,
                          VArr(<<VStr(<<"x">>), VInt(0), VNull>>) >> >>)

-----------------------------------------------------------------------------
(* Calls of encode and decode that run interleaved *)

\* calls in flight
NumCalls == 2

Calls == 1..NumCalls

\* the call of encode(arg, {"indent": indent}) or decode(src, indent), not begun
EncodeCall(arg, indent) ==
    [op |-> "encode", arg |-> arg, src |-> <<>>, indent |-> indent, pc |-> "start",
     todo |-> <<>>, out |-> NoResult]
DecodeCall(src, indent) ==
    [op |-> "decode", arg |-> NoValue, src |-> src, indent |-> indent, pc |-> "start",
     todo |-> <<>>, out |-> NoResult]

\* {"k": {"v": 1}}, [{"k": 1}, {"k": "x"}], {"k": [1, {"v": 1}]} and 1 to
\* encode with indent 2 and 1; two documents to decode
CallPool ==
    {EncodeCall(v, n) :
        v \in { VObj(<< << <<"k">>, VObj(<< << <<"v">>, VInt(1) >> >>) >> >>),
                VArr(<< VObj(<< << <<"k">>, VInt(1) >> >>),
                        VObj(<< << <<"k">>, VStr(<<"x">>) >> >>) >>),
                VObj(<< << <<"k">>, VArr(<< VInt(1), VObj(<< << <<"v">>, VInt(1) >> >>) >>) >> >>),
                VInt(1) },
        n \in {1, DefaultIndent}}
        \cup {DecodeCall(s, DefaultIndent) :
                s \in { <<"k", ":", " ", "1">>, <<"[", "2", "]", ":", " ", "1", ",", "2">> }}

OptionsOf(call) == [DefaultOptions EXCEPT !.indent = call.indent]

\* The pushes encode makes for val, in order, as <<depth, content>>: read off
\* a writer that indents by one space per depth.
Pushes(val, opts) ==
    LET lines == _encode_value(normalize_value(val),
                               [indent |-> opts.indent,
                                delimiter |-> ResolveDelimiter(opts.delimiter),
                                lengthMarker |-> opts.lengthMarker],
                               LineWriter(0), 0).lines
    IN  [i \in DOMAIN lines |-> <<Len(lines[i]) - Len(LStrip(lines[i])), LStrip(lines[i])>>]

\* one LineWriter for every call, as if it were module state
SharedWriter(c) == 1

\* the LineWriter that call c of encode creates and writes to: its own
WriterOf(c) == c

InitConc ==
    /\ pc = "calls"
    /\ value = NoValue
    /\ options = DefaultOptions
    /\ text = <<>>
    /\ result = NoResult
    /\ calls \in [Calls -> CallPool]
    /\ writers = [w \in Calls |-> LineWriter(DefaultIndent)]
    /\ signature = <<>>
    /\ completion = <<>>
    /\ raised = NoResult
    /\ demos = <<>>
    /\ inputs = <<>>
    /\ messages = <<>>

\* encode up to writer = LineWriter(resolved.indent)
EncodeBegin(c) ==
    /\ pc = "calls"
    /\ calls[c].op = "encode" /\ calls[c].pc = "start"
    /\ writers' = [writers EXCEPT ![WriterOf(c)] = LineWriter(calls[c].indent)]
    /\ calls' = [calls EXCEPT ![c].pc = "running",
                              ![c].todo = Pushes(calls[c].arg, OptionsOf(calls[c]))]
    /\ UNCHANGED <<pc, value, options, text, result, signature, completion, raised, demos, inputs, messages>>

\* the next writer.push of _encode_value
EncodePush(c) ==
    /\ pc = "calls"
    /\ calls[c].pc = "running" /\ calls[c].todo # <<>>
    /\ writers' = [writers EXCEPT ![WriterOf(c)] =
                        push(@, Head(calls[c].todo)[1], Head(calls[c].todo)[2])]
    /\ calls' = [calls EXCEPT ![c].todo = Tail(@)]
    /\ UNCHANGED <<pc, value, options, text, result, signature, completion, raised, demos, inputs, messages>>

\* return writer.to_string()
EncodeEnd(c) ==
    /\ pc = "calls"
    /\ calls[c].pc = "running" /\ calls[c].todo = <<>>
    /\ calls' = [calls EXCEPT ![c].pc = "done", ![c].out = to_string(writers[WriterOf(c)])]
    /\ UNCHANGED <<pc, value, options, text, result, writers,
                    signature, completion, raised, demos, inputs, messages>>

\* decode, which works on its arguments and locals only
DecodeRun(c) ==
    /\ pc = "calls"
    /\ calls[c].op = "decode" /\ calls[c].pc = "start"
    /\ calls' = [calls EXCEPT ![c].pc = "done",
                              ![c].out = decode(calls[c].src, OptionsOf(calls[c]))]
    /\ UNCHANGED <<pc, value, options, text, result, writers,
                    signature, completion, raised, demos, inputs, messages>>

NextConc ==
    \E c \in Calls : EncodeBegin(c) \/ EncodePush(c) \/ EncodeEnd(c) \/ DecodeRun(c)

SpecConc == InitConc /\ [][NextConc]_vars

\* the result of running the call alone
Alone(call) ==
    IF call.op = "encode" THEN encode(call.arg, OptionsOf(call))
    ELSE decode(call.src, OptionsOf(call))

(* C16: concurrent use is safe.  When encode and decode calls run           *)
(* interleaved at any granularity, the result of each call equals the       *)
(* result of running that call alone.                                       *)
ConcurrentCallsAgree ==
    pc = "calls" => \A c \in Calls : calls[c].pc = "done" => calls[c].out = Alone(calls[c])

\* two encode calls with different indents have both returned, and both
\* wrote lines below depth 0
ConcurrentCallsAgreeWitness ==
    /\ pc = "calls"
    /\ \A c \in Calls : calls[c].op = "encode" /\ calls[c].pc = "done"
    /\ calls[1].indent # calls[2].indent
    /\ Len(writers[1].lines) > 2 /\ Len(writers[2].lines) > 1
    /\ DOMAIN writers[1].indent_cache # {0} /\ DOMAIN writers[2].indent_cache # {0}

-----------------------------------------------------------------------------
(* Encoding and decoding with indent 0 *)

\* most elements of a generated inline array, most rows of a tabular one
MaxRows == 2

IndentPrims == {VInt(1), VStr(<<"x">>), VStr(<<".", "0">>)}

\* inline arrays, tabular arrays and objects of primitives
InlineArrays(n) == ArraysOf(IndentPrims, n)
TabularArrays(n) ==
    {VArr(s) : s \in SeqsUpTo({VObj(<< << <<"k">>, a >>, << <<"v">>, VInt(2) >> >>) :
                                    a \in IndentPrims}, n) \ {<<>>}}
FlatObjects == {VObj(<< << <<"v">>, a >> >>) : a \in IndentPrims}

\* those values at the root and one, two and three objects deep
IndentValues(n) ==
    LET flat == InlineArrays(n) \cup TabularArrays(n) \cup FlatObjects
        one == {VObj(<< << <<"k">>, a >> >>) : a \in flat}
        two == {VObj(<< << <<"w">>, VInt(1) >>, << <<"k">>, a >> >>) : a \in one}
        three == {VObj(<< << <<"k">>, a >>, << <<"u">>, VInt(2) >> >>) : a \in two}
    IN  flat \cup one \cup two \cup three

InitInd ==
    /\ pc = "start"
    /\ value \in IndentValues(MaxRows)
    /\ options = [DefaultOptions EXCEPT !.indent = 0]
    /\ text = <<>>
    /\ result = NoResult
    /\ calls = <<>>
    /\ writers = <<>>
    /\ signature = <<>>
    /\ completion = <<>>
    /\ raised = NoResult
    /\ demos = <<>>
    /\ inputs = <<>>
    /\ messages = <<>>

SpecInd == InitInd /\ [][Next]_vars

\* line by line, s has one space where t has DefaultIndent of them, and the
\* same content
OneSpacePerDepth(s, t) ==
    /\ Len(LinesOf(s)) = Len(LinesOf(t))
    /\ \A i \in DOMAIN LinesOf(s) :
            /\ LStrip(LinesOf(s)[i]) = LStrip(LinesOf(t)[i])
            /\ LeadingSpaces(LinesOf(t)[i]) = DefaultIndent * LeadingSpaces(LinesOf(s)[i])

\* every parsed line has its leading spaces as depth
DepthIsIndent(s) ==
    \A l \in Range(_to_parsed_lines(s, 0, TRUE)) : l.depth = LeadingSpaces(l.raw)

(* C17: indent 0 stays recoverable.  With indent 0 the encoder prefixes a   *)
(* line at depth d with exactly d spaces, the decoder takes the count of    *)
(* leading spaces as depth, and for every normalized value built from       *)
(* nested objects, inline arrays and tabular arrays decoding the encoding,  *)
(* both with indent 0, gives the value back.                                *)
IndentZeroRecoverable ==
    /\ pc \in {"text", "decoded"} =>
            /\ OneSpacePerDepth(text, encode(value, DefaultOptions))
            /\ DepthIsIndent(text)
    /\ pc = "decoded" => ~IsErr(result) /\ PyEq(result, normalize_value(value))

-----------------------------------------------------------------------------
(* Object bodies with a line that has no colon *)

\* most lines of a generated object body
MaxBodyLines == 3

\* a: 1 and b: 2
FieldLines == { <<"a", ":", " ", "1">>, <<"b", ":", " ", "2">> }

\* lines without an unquoted colon that are no array header: a bare word,
\* and a key with a length and an unclosed field list
ColonlessLines == { <<"x">>, <<"c", "[", "1", "]", "{", "a">> }

\* Where the object body stands: at the root, under the key k, and under
\* the key k of the only item of the list l.  head: the lines before the
\* body; pad: the leading spaces of a body line.
BodyContexts ==
    { [at |-> "root", head |-> <<>>, pad |-> 0],
      [at |-> "key", head |-> << <<"k", ":">> >>, pad |-> 2],
      [at |-> "item",
        head |-> << <<"l", "[", "1", "]", ":">>, <<" ", " ", "-", " ", "k", ":">> >>,
        pad |-> 6] }

\* bodies of 2..n lines
ColonBodies(n) == SeqsUpTo(FieldLines \cup ColonlessLines, n) \ SeqsUpTo(FieldLines \cup ColonlessLines, 1)

BodyDocument(c, body) ==
    Join(<<NEWLINE>>, c.head \o [i \in DOMAIN body |-> Repeat(<<SPACE>>, c.pad) \o body[i]])

InitColon ==
    /\ pc = "text"
    /\ value = NoValue
    /\ options \in {[DefaultOptions EXCEPT !.strict = b] : b \in BOOLEAN}
    /\ text \in {BodyDocument(c, body) : c \in BodyContexts, body \in ColonBodies(MaxBodyLines)}
    /\ result = NoResult
    /\ calls = <<>>
    /\ writers = <<>>
    /\ signature = <<>>
    /\ completion = <<>>
    /\ raised = NoResult
    /\ demos = <<>>
    /\ inputs = <<>>
    /\ messages = <<>>

SpecColon == InitColon /\ [][Decode]_vars

\* the context of a generated document, and the lines of its body
ContextOf(s) ==
    CHOOSE c \in BodyContexts :
        /\ Len(LinesOf(s)) > Len(c.head)
        /\ SubSeq(LinesOf(s), 1, Len(c.head)) = c.head
        /\ LeadingSpaces(LinesOf(s)[Len(c.head) + 1]) = c.pad
BodyOf(s) ==
    [i \in 1..(Len(LinesOf(s)) - Len(ContextOf(s).head)) |->
        LStrip(LinesOf(s)[Len(ContextOf(s).head) + i])]

\* r[k], r[1]: NoValue where r holds no such thing
Under(r, k) == IF r.t = "obj" /\ HasKey(r.v, k) THEN Lookup(r.v, k) ELSE NoValue
FirstOf(r) == IF r.t = "arr" /\ r.v # <<>> THEN r.v[1] ELSE NoValue

\* what the result holds at the place of the body
ObjectAt(r, c) ==
    IF c.at = "root" THEN r
    ELSE IF c.at = "key" THEN Under(r, <<"k">>)
    ELSE Under(FirstOf(Under(r, <<"l">>)), <<"k">>)

\* the object holds the field a line of FieldLines spells
HoldsField(obj, line) ==
    /\ obj.t = "obj"
    /\ HasKey(obj.v, <<line[1]>>)
    /\ PyEq(Lookup(obj.v, <<line[1]>>), _parse_primitive(<<line[4]>>))

(* C18: missing-colon handling in an object body of at least two non-blank  *)
(* lines.  In strict mode a line at the object's depth that is no array     *)
(* header and has no unquoted colon fails the whole decode; in non-strict   *)
(* mode the line is skipped and every well-formed field at the same depth,  *)
(* before and after it, is present in the result.                           *)
MissingColonHandling ==
    pc = "decoded" /\ (\E l \in Range(BodyOf(text)) : l \in ColonlessLines) =>
        IF options.strict THEN IsErr(result)
        ELSE /\ ~IsErr(result)
             /\ \A l \in Range(BodyOf(text)) :
                    l \in FieldLines => HoldsField(ObjectAt(result, ContextOf(text)), l)

-----------------------------------------------------------------------------
(* The adapter of toon_adapter.py: Python str and re primitives *)

\* s[i] with a 0-based index, "" outside the string
CharAt(s, i) == IF 0 <= i /\ i < Len(s) THEN s[i + 1] ELSE ""

\* s.startswith(p, i)
StartsAt(s, p, i) == i + Len(p) <= Len(s) /\ SubSeq(s, i + 1, i + Len(p)) = p

RECURSIVE FindStr(_, _, _)
\* s.find(sub, i)
FindStr(s, sub, i) ==
    IF i + Len(sub) > Len(s) THEN -1
    ELSE IF StartsAt(s, sub, i) THEN i
    ELSE FindStr(s, sub, i + 1)

\* sub in s
InStr(sub, s) == FindStr(s, sub, 0) # -1

RECURSIVE SplitStr(_, _)
\* s.split(sep) for a separator of one or more characters
SplitStr(s, sep) ==
    IF FindStr(s, sep, 0) = -1 THEN <<s>>
    ELSE <<Slice(s, 0, FindStr(s, sep, 0))>> \o SplitStr(From(s, FindStr(s, sep, 0) + Len(sep)), sep)

RECURSIVE SkipSpace(_, _)
\* the index where \s* ends when it starts at i
SkipSpace(s, i) == IF i < Len(s) /\ IsSpace(s[i + 1]) THEN SkipSpace(s, i + 1) ELSE i

\* the index where \d* ends
DigitsEnd(s, i) == SkipDigits(s, i + 1) - 1

RECURSIVE SkipWord(_, _)
\* the index where \w* ends
SkipWord(s, i) == IF i < Len(s) /\ IsWordChar(s[i + 1]) THEN SkipWord(s, i + 1) ELSE i

RECURSIVE LineEnd(_, _)
\* the index where .* ends: the next newline, or the end
LineEnd(s, i) == IF i < Len(s) /\ s[i + 1] # NEWLINE THEN LineEnd(s, i + 1) ELSE i

\* ^ under re.MULTILINE
AtLineStart(s, i) == i = 0 \/ CharAt(s, i - 1) = NEWLINE

\* \[\d+\] at i: the index after it, or -1
CountEnd(s, i) ==
    IF CharAt(s, i) = "[" /\ DigitsEnd(s, i + 1) > i + 1 /\ CharAt(s, DigitsEnd(s, i + 1)) = "]"
    THEN DigitsEnd(s, i + 1) + 1
    ELSE -1

\* \{[^}]+\}: at i: the index after it, or -1
FieldsEnd(s, i) ==
    IF CharAt(s, i) = "{" /\ FindStr(s, <<"}">>, i + 1) > i + 1
            /\ CharAt(s, FindStr(s, <<"}">>, i + 1) + 1) = ":"
    THEN FindStr(s, <<"}">>, i + 1) + 2
    ELSE -1

\* \[\d+\]\{[^}]+\}: at i: the index after it, or -1
TabularHeaderEnd(s, i) == IF CountEnd(s, i) = -1 THEN -1 ELSE FieldsEnd(s, CountEnd(s, i))

\* (?=\n\w+:|$) at p, $ without re.MULTILINE
BlockStops(s, p) ==
    \/ p = Len(s)
    \/ p = Len(s) - 1 /\ CharAt(s, p) = NEWLINE
    \/ CharAt(s, p) = NEWLINE /\ SkipWord(s, p + 1) > p + 1 /\ CharAt(s, SkipWord(s, p + 1)) = ":"

RECURSIVE LazyTo(_, _)
\* where [\s\S]*? ends when it starts at p
LazyTo(s, p) == IF BlockStops(s, p) THEN p ELSE LazyTo(s, p + 1)

\* name:\s*\n(\[\d+\]\{[^}]+\}:[\s\S]*?)(?=\n\w+:|$) matched at i: group 1, or None.
\* k: where the whitespace after the colon ends
TabularAt(s, name, i, k) ==
    IF StartsAt(s, name \o <<":">>, i) /\ k > i + Len(name) + 1 /\ CharAt(s, k - 1) = NEWLINE
            /\ TabularHeaderEnd(s, k) # -1
    THEN Some(Slice(s, k, LazyTo(s, TabularHeaderEnd(s, k))))
    ELSE None

RECURSIVE TabularSearch(_, _, _)
\* re.search of that pattern from i on: group 1 of the leftmost match, or None
TabularSearch(s, name, i) ==
    IF i > Len(s) THEN None
    ELSE IF TabularAt(s, name, i, SkipSpace(s, i + Len(name) + 1)).some
    THEN TabularAt(s, name, i, SkipSpace(s, i + Len(name) + 1))
    ELSE TabularSearch(s, name, i + 1)

\* ^name: or, if counted, ^name(?:\[\d+\])?: at i: the index after the colon, or -1
AfterName(s, name, i, counted) ==
    IF ~(AtLineStart(s, i) /\ StartsAt(s, name, i)) THEN -1
    ELSE IF CharAt(s, i + Len(name)) = ":" THEN i + Len(name) + 1
    ELSE IF counted /\ CountEnd(s, i + Len(name)) # -1
                /\ CharAt(s, CountEnd(s, i + Len(name))) = ":"
    THEN CountEnd(s, i + Len(name)) + 1
    ELSE -1

\* \s*(.+)$ at j under re.MULTILINE: group 1, or None.  k: where the
\* whitespace ends.  When it runs to the end of the string, \s* gives back
\* characters until .+ has the last one that is no newline.
RestOfLine(s, j, k) ==
    IF k < Len(s) THEN Some(Slice(s, k, LineEnd(s, k)))
    ELSE IF \E t \in j..(Len(s) - 1) : s[t + 1] # NEWLINE
    THEN Some(<<s[(CHOOSE t \in j..(Len(s) - 1) :
                        s[t + 1] # NEWLINE /\ \A u \in (t + 1)..(Len(s) - 1) : s[u + 1] = NEWLINE) + 1]>>)
    ELSE None

RECURSIVE LineSearch(_, _, _, _)
\* re.search of ^name:\s*(.+)$, or of ^name(?:\[\d+\])?:\s*([^\n]+)$ if
\* counted, from i on: group 1 of the leftmost match, or None
LineSearch(s, name, i, counted) ==
    IF i > Len(s) THEN None
    ELSE IF AfterName(s, name, i, counted) # -1
                /\ RestOfLine(s, AfterName(s, name, i, counted),
                              SkipSpace(s, AfterName(s, name, i, counted))).some
    THEN RestOfLine(s, AfterName(s, name, i, counted), SkipSpace(s, AfterName(s, name, i, counted)))
    ELSE LineSearch(s, name, i + 1, counted)

\* (?:.+\n?)* matches all of s[q:p]: no line of it is empty
NoEmptyLine(s, q, p) ==
    p = q \/ (CharAt(s, q) # NEWLINE /\ \A u \in q..(p - 2) : ~(s[u + 1] = NEWLINE /\ s[u + 2] = NEWLINE))

\* (?=^\w[\w\s]*:|\Z) at p under re.MULTILINE
ListStops(s, p) ==
    \/ p = Len(s)
    \/ /\ AtLineStart(s, p)
       /\ IsWordChar(CharAt(s, p))
       /\ \E r \in (p + 1)..(Len(s) - 1) :
            s[r + 1] = ":" /\ \A u \in (p + 1)..(r - 1) : IsWordChar(s[u + 1]) \/ IsSpace(s[u + 1])

\* ((?:.+\n?)*?)(?=^\w[\w\s]*:|\Z) at q: the end of group 1, or -1
ListBlockEnd(s, q) ==
    IF \E p \in q..Len(s) : NoEmptyLine(s, q, p) /\ ListStops(s, p)
    THEN CHOOSE p \in q..Len(s) :
            /\ NoEmptyLine(s, q, p) /\ ListStops(s, p)
            /\ \A u \in q..(p - 1) : ~(NoEmptyLine(s, q, u) /\ ListStops(s, u))
    ELSE -1

\* \s*\n(...) at j, the whitespace ending at k: \s* takes the longest run
\* that a newline and a block follow.  Group 1, or None.
ListBlockAt(s, j, k) ==
    IF \E q \in (j + 1)..k : s[q] = NEWLINE /\ ListBlockEnd(s, q) # -1
    THEN Some(Slice(s, CHOOSE q \in (j + 1)..k :
                            /\ s[q] = NEWLINE /\ ListBlockEnd(s, q) # -1
                            /\ \A u \in (q + 1)..k : ~(s[u] = NEWLINE /\ ListBlockEnd(s, u) # -1),
                    ListBlockEnd(s, CHOOSE q \in (j + 1)..k :
                            /\ s[q] = NEWLINE /\ ListBlockEnd(s, q) # -1
                            /\ \A u \in (q + 1)..k : ~(s[u] = NEWLINE /\ ListBlockEnd(s, u) # -1))))
    ELSE None

RECURSIVE ListBlockSearch(_, _, _)
\* re.search of ^name(?:\[\d+\])?:\s*\n((?:.+\n?)*?)(?=^\w[\w\s]*:|\Z) from i
\* on: group 1 of the leftmost match, or None
ListBlockSearch(s, name, i) ==
    IF i > Len(s) THEN None
    ELSE IF AfterName(s, name, i, TRUE) # -1
                /\ ListBlockAt(s, AfterName(s, name, i, TRUE),
                               SkipSpace(s, AfterName(s, name, i, TRUE))).some
    THEN ListBlockAt(s, AfterName(s, name, i, TRUE), SkipSpace(s, AfterName(s, name, i, TRUE)))
    ELSE ListBlockSearch(s, name, i + 1)

-----------------------------------------------------------------------------
(* The adapter: field types and conversion *)

\* The annotations of the output fields modelled: str, a typed object Note,
\* lists of either, and an optional list.  Note stands for a pydantic model
\* whose fields p and q are required and of type Any.
FieldTypes == {"str", "Note", "list[str]", "list[Note]", "Optional[list[str]]"}

NoteFields == << <<"p">>, <<"q">> >>

\* typing.get_origin
get_origin(annotation) ==
    IF annotation \in {"list[str]", "list[Note]"} THEN "list"
    ELSE IF annotation = "Optional[list[str]]" THEN "Union"
    ELSE "None"

\* the first of typing.get_args that is not NoneType
FirstArg(annotation) ==
    IF annotation = "list[Note]" THEN "Note"
    ELSE IF annotation = "list[str]" THEN "str"
    ELSE IF annotation = "Optional[list[str]]" THEN "list[str]"
    ELSE "None"

\* inspect.isclass(t) and issubclass(t, BaseModel)
IsModelClass(annotation) == annotation = "Note"

_is_array_type(annotation) ==
    \/ get_origin(annotation) = "list"
    \/ get_origin(annotation) = "Union" /\ get_origin(FirstArg(annotation)) = "list"

\* Note.model_validate(obj) for a dict: the instance, or the ValidationError
model_validate(obj) ==
    IF \A i \in DOMAIN NoteFields : HasKey(obj.v, NoteFields[i])
    THEN [t |-> "model", v |-> [i \in DOMAIN NoteFields |-> <<NoteFields[i], Lookup(obj.v, NoteFields[i])>>]]
    ELSE Raise("ValidationError")

\* [inner_type.model_validate(item) if isinstance(item, dict) else item for item in value]
ValidateItems(items) ==
    IF \E i \in DOMAIN items : items[i].t = "obj" /\ IsErr(model_validate(items[i]))
    THEN Raise("ValidationError")
    ELSE VArr([i \in DOMAIN items |-> IF items[i].t = "obj" THEN model_validate(items[i]) ELSE items[i]])

RECURSIVE _convert_field(_, _)
\* the converted value, or the error model_validate raises
_convert_field(val, field_type) ==
    IF get_origin(field_type) = "Union"
    THEN _convert_field(val, FirstArg(field_type))
    ELSE IF get_origin(field_type) = "list" /\ IsModelClass(FirstArg(field_type)) /\ val.t = "arr"
    THEN ValidateItems(val.v)
    ELSE IF IsModelClass(field_type) /\ val.t = "obj"
    THEN model_validate(val)
    ELSE val

\* self._convert_field(parsed, field_type) where decode returned parsed
ConvertParsed(parsed, field_type) ==
    IF IsErr(parsed) THEN parsed ELSE _convert_field(parsed, field_type)

\* self._convert_field(decode(s), field_type), or the error either raises
DecodeConverted(s, field_type) == ConvertParsed(decode(s, DefaultOptions), field_type)

\* [p.strip() for p in parts if p.strip()]
StrippedNonEmpty(parts) ==
    SelectSeq([i \in DOMAIN parts |-> Strip(parts[i])], LAMBDA p : p # <<>>)

RECURSIVE SplitLinesFrom(_, _, _)
SplitLinesFrom(s, i, cur) ==
    IF i > Len(s) THEN (IF cur = <<>> THEN <<>> ELSE <<cur>>)
    ELSE IF s[i] = CARRIAGE_RETURN /\ i < Len(s) /\ s[i + 1] = NEWLINE
    THEN <<cur>> \o SplitLinesFrom(s, i + 2, <<>>)
    ELSE IF s[i] \in {NEWLINE, CARRIAGE_RETURN}
    THEN <<cur>> \o SplitLinesFrom(s, i + 1, <<>>)
    ELSE SplitLinesFrom(s, i + 1, Append(cur, s[i]))

\* str.splitlines(), the line breaks being \n, \r and \r\n
SplitLines(s) == SplitLinesFrom(s, 1, <<>>)

\* part.split(":", 1) of a part that holds a colon, both halves stripped
KeyOfPart(part) == Strip(Slice(part, 0, Find(part, COLON)))
RawValOfPart(part) == Strip(From(part, Find(part, COLON) + 1))

\* parsed_val of _parse_inline_kv_pairs, decode(raw_val) having given decoded
InlineValue(raw_val, decoded) ==
    IF ~IsErr(decoded) THEN decoded
    ELSE IF Lower(raw_val) = NULL_LITERAL THEN VNull
    ELSE VStr(raw_val)

RECURSIVE InlinePairs(_, _)
\* the loop of _parse_inline_kv_pairs over parts, parsed so far
InlinePairs(parts, parsed) ==
    IF parts = <<>> THEN parsed
    ELSE IF ~Contains(Head(parts), COLON) \/ KeyOfPart(Head(parts)) = <<>>
    THEN InlinePairs(Tail(parts), parsed)
    ELSE InlinePairs(Tail(parts),
                     DictSet(parsed, KeyOfPart(Head(parts)),
                             InlineValue(RawValOfPart(Head(parts)),
                                         decode(RawValOfPart(Head(parts)), DefaultOptions))))

\* parsed or None
DictOrNone(parsed) == IF parsed = <<>> THEN VNull ELSE VObj(parsed)

\* the dict as a value, or VNull for None
_parse_inline_kv_pairs(value_str) ==
    IF ~Contains(value_str, COLON) THEN VNull
    ELSE DictOrNone(InlinePairs(StrippedNonEmpty(Split(value_str, COMMA)), <<>>))

\* a list of str as a value
StrList(items) == VArr([i \in DOMAIN items |-> VStr(items[i])])

\* the first item decoded and converted to converted, or as it stands
FirstItem(items, converted) == IF IsErr(converted) THEN VStr(items[1]) ELSE converted

\* The common end of the two list branches, items found or not: the items
\* for a list field, else the first of them, None when nothing was found.
ListResult(found, items, field_type) ==
    IF ~found THEN VNull
    ELSE IF get_origin(field_type) = "list" THEN StrList(items)
    ELSE FirstItem(items, DecodeConverted(IF items = <<>> THEN <<>> ELSE items[1], field_type))

\* the lines of the list block matched, the inline list having given none
ExtractListBlock(match, field_type, lines) ==
    ListResult(match.some /\ lines # <<>>, lines, field_type)

\* _extract_field_value from the inline list pattern on, items being the
\* values of the inline list matched
ExtractInlineList(comp, field_name, field_type, match, items, block) ==
    IF ~_is_array_type(field_type) THEN VNull
    ELSE IF match.some /\ (get_origin(field_type) = "list" \/ items # <<>>)
    THEN ListResult(TRUE, items, field_type)
    ELSE ExtractListBlock(block, field_type, StrippedNonEmpty(SplitLines(Strip(block.v))))

\* the except branch under the simple pattern
ExtractInlineObject(value_str, field_type, inline_obj) ==
    IF IsModelClass(field_type) /\ inline_obj.t # "null"
    THEN _convert_field(inline_obj, field_type)
    ELSE VStr(value_str)

\* _extract_field_value from the simple pattern on, the value matched
\* decoded and converted to converted
ExtractSimple(comp, field_name, field_type, match, inline, converted) ==
    IF ~match.some
    THEN ExtractInlineList(comp, field_name, field_type, inline,
                           StrippedNonEmpty(Split(Strip(inline.v), COMMA)),
                           ListBlockSearch(comp, field_name, 0))
    ELSE IF Strip(match.v) = <<>> \/ StartsWith(Strip(match.v), <<"[">>) THEN VNull
    ELSE IF ~IsErr(converted) THEN converted
    ELSE ExtractInlineObject(Strip(match.v), field_type, _parse_inline_kv_pairs(Strip(match.v)))

\* _extract_field_value from the tabular pattern on, the array matched
\* decoded and converted to converted
ExtractTabular(comp, field_name, field_type, match, converted, simple) ==
    IF match.some /\ ~IsErr(converted) THEN converted
    ELSE ExtractSimple(comp, field_name, field_type, simple,
                       LineSearch(comp, field_name, 0, TRUE),
                       DecodeConverted(Strip(simple.v), field_type))

\* The value, VNull for None, or the error that escapes.
_extract_field_value(comp, field_name, field_type) ==
    ExtractTabular(comp, field_name, field_type, TabularSearch(comp, field_name, 0),
                   DecodeConverted(Strip(TabularSearch(comp, field_name, 0).v), field_type),
                   LineSearch(comp, field_name, 0, FALSE))

-----------------------------------------------------------------------------
(* The adapter: json.loads *)

\* A scanned value and the index after it.
Scanned(val, i) == [t |-> "at", v |-> val, i |-> i]

\* the character an escape letter of a JSON string stands for (\b and \u are
\* not drawn), or "" when the letter is no escape
JsonEscape(c) ==
    IF c \in {DOUBLE_QUOTE, BACKSLASH, "/"} THEN c
    ELSE IF c = "n" THEN NEWLINE
    ELSE IF c = "r" THEN CARRIAGE_RETURN
    ELSE IF c = "t" THEN TAB
    ELSE IF c = "f" THEN "\f"
    ELSE ""

RECURSIVE JsonString(_, _, _)
\* py_scanstring from i, after the opening quote: control characters end it
\* with an error
JsonString(s, i, acc) ==
    IF i >= Len(s) THEN Raise("JSONDecodeError")
    ELSE IF s[i + 1] = DOUBLE_QUOTE THEN Scanned(VStr(acc), i + 1)
    ELSE IF s[i + 1] = BACKSLASH
    THEN IF JsonEscape(CharAt(s, i + 1)) = "" THEN Raise("JSONDecodeError")
         ELSE JsonString(s, i + 2, Append(acc, JsonEscape(CharAt(s, i + 1))))
    ELSE IF s[i + 1] \in {NEWLINE, CARRIAGE_RETURN, TAB, "\f"} THEN Raise("JSONDecodeError")
    ELSE JsonString(s, i + 1, Append(acc, s[i + 1]))

\* NUMBER_RE of json.scanner: (-?(?:0|[1-9]\d*))(\.\d+)?([eE][-+]?\d+)?
\* the end of group 1 from j, after the sign; -1 without a match
JsonIntEnd(s, j) ==
    IF CharAt(s, j) = "0" THEN j + 1
    ELSE IF IsDigit(CharAt(s, j)) THEN DigitsEnd(s, j)
    ELSE -1
JsonFracEnd(s, i) ==
    IF CharAt(s, i) = "." /\ DigitsEnd(s, i + 1) > i + 1 THEN DigitsEnd(s, i + 1) ELSE i
JsonExpEnd(s, i, j) ==
    IF CharAt(s, i) \in {"e", "E"} /\ DigitsEnd(s, j) > j THEN DigitsEnd(s, j) ELSE i

\* the number from i, a the end of its integer part and b of the whole
JsonNumber(s, i, a, b) ==
    IF a = -1 THEN Raise("JSONDecodeError")
    ELSE IF b = a THEN Scanned(VInt(IntValue(Slice(s, i, a))), a)
    ELSE Scanned(FloatValue(Slice(s, i, b)), b)

JsonNumberFrom(s, i, a) ==
    IF a = -1 THEN Raise("JSONDecodeError")
    ELSE JsonNumber(s, i, a,
                    JsonExpEnd(s, JsonFracEnd(s, a),
                               IF CharAt(s, JsonFracEnd(s, a) + 1) \in {"+", "-"}
                               THEN JsonFracEnd(s, a) + 2 ELSE JsonFracEnd(s, a) + 1))

RECURSIVE JsonValue(_, _)
RECURSIVE JsonMembers(_, _, _)
RECURSIVE JsonAfterKey(_, _, _)
RECURSIVE JsonAfterMember(_, _, _, _)
RECURSIVE JsonElements(_, _, _)
RECURSIVE JsonAfterElement(_, _, _)

\* scan_once at i (NaN and Infinity are not drawn)
JsonValue(s, i) ==
    IF CharAt(s, i) = DOUBLE_QUOTE THEN JsonString(s, i + 1, <<>>)
    ELSE IF CharAt(s, i) = "{"
    THEN IF CharAt(s, SkipSpace(s, i + 1)) = "}" THEN Scanned(VObj(<<>>), SkipSpace(s, i + 1) + 1)
         ELSE JsonMembers(s, SkipSpace(s, i + 1), <<>>)
    ELSE IF CharAt(s, i) = "["
    THEN IF CharAt(s, SkipSpace(s, i + 1)) = "]" THEN Scanned(VArr(<<>>), SkipSpace(s, i + 1) + 1)
         ELSE JsonElements(s, SkipSpace(s, i + 1), <<>>)
    ELSE IF StartsAt(s, NULL_LITERAL, i) THEN Scanned(VNull, i + 4)
    ELSE IF StartsAt(s, TRUE_LITERAL, i) THEN Scanned(VBool(TRUE), i + 4)
    ELSE IF StartsAt(s, FALSE_LITERAL, i) THEN Scanned(VBool(FALSE), i + 5)
    ELSE JsonNumberFrom(s, i, JsonIntEnd(s, IF CharAt(s, i) = "-" THEN i + 1 ELSE i))

\* JSONObject at a key
JsonMembers(s, i, pairs) ==
    IF CharAt(s, i) # DOUBLE_QUOTE THEN Raise("JSONDecodeError")
    ELSE JsonAfterKey(s, JsonString(s, i + 1, <<>>), pairs)

JsonAfterKey(s, key, pairs) ==
    IF IsErr(key) THEN key
    ELSE IF CharAt(s, SkipSpace(s, key.i)) # COLON THEN Raise("JSONDecodeError")
    ELSE JsonAfterMember(s, key.v.v, JsonValue(s, SkipSpace(s, SkipSpace(s, key.i) + 1)), pairs)

JsonAfterMember(s, k, val, pairs) ==
    IF IsErr(val) THEN val
    ELSE IF CharAt(s, SkipSpace(s, val.i)) = "}"
    THEN Scanned(VObj(DictSet(pairs, k, val.v)), SkipSpace(s, val.i) + 1)
    ELSE IF CharAt(s, SkipSpace(s, val.i)) = COMMA
    THEN JsonMembers(s, SkipSpace(s, SkipSpace(s, val.i) + 1), DictSet(pairs, k, val.v))
    ELSE Raise("JSONDecodeError")

\* JSONArray at an element
JsonElements(s, i, items) == JsonAfterElement(s, JsonValue(s, i), items)

JsonAfterElement(s, val, items) ==
    IF IsErr(val) THEN val
    ELSE IF CharAt(s, SkipSpace(s, val.i)) = "]"
    THEN Scanned(VArr(Append(items, val.v)), SkipSpace(s, val.i) + 1)
    ELSE IF CharAt(s, SkipSpace(s, val.i)) = COMMA
    THEN JsonElements(s, SkipSpace(s, SkipSpace(s, val.i) + 1), Append(items, val.v))
    ELSE Raise("JSONDecodeError")

\* JSONDecoder.decode: one value between whitespace, and nothing after it
JsonDocument(s, scanned) ==
    IF IsErr(scanned) THEN scanned
    ELSE IF SkipSpace(s, scanned.i) # Len(s) THEN Raise("JSONDecodeError")
    ELSE scanned.v

\* json.loads(s): the value, or the JSONDecodeError
json_loads(s) == JsonDocument(s, JsonValue(s, SkipSpace(s, 0)))

-----------------------------------------------------------------------------
(* The adapter: ToonAdapter.parse *)

\* d.keys(), of a dict and of signature.output_fields, as a set
KeySet(pairs) == {pairs[i][1] : i \in DOMAIN pairs}

\* any field stored
SomeStored(res, fields) == res # <<>>

\* result.keys() == signature.output_fields.keys()
Complete(res, fields) == KeySet(res) = KeySet(fields)

RECURSIVE ExtractAll(_, _, _)
RECURSIVE ExtractNext(_, _, _, _)
\* The first loop of parse, from the fields left and the result so far: the
\* result, and the error that escapes _extract_field_value if one does.
ExtractAll(comp, fields, res) ==
    IF fields = <<>> THEN [result |-> res, raised |-> NoResult]
    ELSE ExtractNext(comp, fields, res,
                     _extract_field_value(comp, Head(fields)[1], Head(fields)[2]))

ExtractNext(comp, fields, res, val) ==
    IF IsErr(val) THEN [result |-> res, raised |-> val]
    ELSE ExtractAll(comp, Tail(fields),
                    IF val.t # "null" THEN DictSet(res, Head(fields)[1], val) ELSE res)

\* a stored value gives way to a later one
Replaceable(field_name, res) == TRUE

\* field_name not in result
Unfilled(field_name, res) == ~HasKey(res, field_name)

RECURSIVE StoreParsed(_, _, _)
\* The loop of the two fallbacks over the fields left: a field of parsed
\* that result lacks is converted and stored; an error of _convert_field
\* ends the loop and leaves result as it is by then.
StoreParsed(parsed, fields, res) ==
    IF fields = <<>> THEN res
    ELSE IF ~(HasKey(parsed, Head(fields)[1]) /\ Unfilled(Head(fields)[1], res))
    THEN StoreParsed(parsed, Tail(fields), res)
    ELSE IF IsErr(_convert_field(Lookup(parsed, Head(fields)[1]), Head(fields)[2]))
    THEN res
    ELSE StoreParsed(parsed, Tail(fields),
                     DictSet(res, Head(fields)[1],
                             _convert_field(Lookup(parsed, Head(fields)[1]), Head(fields)[2])))

\* result after the try block of a fallback that parsed the text to parsed
StoreIfDict(parsed, fields, res) ==
    IF ~IsErr(parsed) /\ parsed.t = "obj" THEN StoreParsed(parsed.v, fields, res) ELSE res

\* The character ` of a code fence.  A TLA+ string cannot hold it without
\* the ' that closes it, so the two together stand for the one character.
BACKTICK == "`'"

Fence == <<BACKTICK, BACKTICK, BACKTICK>>
JsonFence == Fence \o <<"j", "s", "o", "n">>

\* json_str of parse
JsonText(comp) ==
    IF InStr(JsonFence, comp) THEN SplitStr(SplitStr(comp, JsonFence)[2], Fence)[1]
    ELSE IF InStr(Fence, comp) THEN SplitStr(SplitStr(comp, Fence)[2], Fence)[1]
    ELSE comp

AdapterParseError(lm_response, parsed_result) ==
    [t |-> "err", v |-> "AdapterParseError", lm_response |-> lm_response,
     parsed_result |-> parsed_result]

\* the state after the first loop left first
FieldsExtracted(first) ==
    /\ result' = first.result
    /\ raised' = first.raised
    /\ pc' = IF IsErr(first.raised) THEN "raised"
             ELSE IF Complete(first.result, signature) THEN "returned"
             ELSE "fields"

\* parse from its start to the first return: the fields one by one
ExtractFields ==
    /\ pc = "parse"
    /\ FieldsExtracted(ExtractAll(Strip(completion), signature, <<>>))
    /\ UNCHANGED <<value, options, text, calls, writers, signature, completion, demos, inputs, messages>>

\* parse from there to the second return: the completion as one TOON
\* document.  An error in the loop skips the return, with a field missing.
DecodeDocument ==
    /\ pc = "fields"
    /\ result' = StoreIfDict(decode(Strip(completion), DefaultOptions), signature, result)
    /\ pc' = IF Complete(result', signature) THEN "returned" ELSE "toon"
    /\ UNCHANGED <<value, options, text, calls, writers, signature, completion, raised, demos, inputs, messages>>

\* parse from there to its end: the completion, or what its fence holds,
\* as JSON; then the check for missing fields
LoadJson ==
    /\ pc = "toon"
    /\ result' = StoreIfDict(json_loads(JsonText(Strip(completion))), signature, result)
    /\ IF Complete(result', signature)
       THEN pc' = "returned" /\ raised' = raised
       ELSE pc' = "raised" /\ raised' = AdapterParseError(Strip(completion), result')
    /\ UNCHANGED <<value, options, text, calls, writers, signature, completion, demos, inputs, messages>>

\* most lines of a completion before its JSON part
MaxHeadLines == 2

\* the output fields of the signatures: a, or a and b
Signatures ==
    { << <<(<<"a">>), "str">> >>,
      << <<(<<"a">>), "str">>, <<(<<"b">>), "str">> >>,
      << <<(<<"a">>), "Note">>, <<(<<"b">>), "list[str]">> >>,
      << <<(<<"b">>), "Optional[list[str]]">>, <<(<<"a">>), "list[Note]">> >> }

\* a: 1, b: x, a: null, b[2]: x,y, "a": 7, a: p: 1, q: 2, a: p: 1, a line
\* of chatter, and a blank line
HeadLines ==
    { <<"a", ":", " ", "1">>,
      <<"b", ":", " ", "x">>,
      <<"a", ":", " ", "n", "u", "l", "l">>,
      <<"b", "[", "2", "]", ":", " ", "x", ",", "y">>,
      <<"\"", "a", "\"", ":", " ", "7">>,
      <<"a", ":", " ", "p", ":", " ", "1", ",", " ", "q", ":", " ", "2">>,
      <<"a", ":", " ", "p", ":", " ", "1">>,
      <<"x">>,
      <<>> }

\* {"a": 5, "b": "z"} and {"b": ["z"]}
JsonLines ==
    { <<"{", "\"", "a", "\"", ":", " ", "5", ",", " ", "\"", "b", "\"", ":", " ", "\"", "z", "\"", "}">>,
      <<"{", "\"", "b", "\"", ":", " ", "[", "\"", "z", "\"", "]", "}">> }

\* nothing, a JSON document, or one inside a fence, named json or not
JsonTails ==
    {<<>>} \cup {<<j>> : j \in JsonLines}
        \cup {<<f, j, Fence>> : f \in {Fence, JsonFence}, j \in JsonLines}

\* completions of up to n lines and a tail
Completions(n) ==
    {Join(<<NEWLINE>>, h \o t) : h \in SeqsUpTo(HeadLines, n), t \in JsonTails}

InitParse ==
    /\ pc = "parse"
    /\ value = NoValue
    /\ options = DefaultOptions
    /\ text = <<>>
    /\ result = NoResult
    /\ calls = <<>>
    /\ writers = <<>>
    /\ signature \in Signatures
    /\ completion \in Completions(MaxHeadLines)
    /\ raised = NoResult
    /\ demos = <<>>
    /\ inputs = <<>>
    /\ messages = <<>>

NextParse == ExtractFields \/ DecodeDocument \/ LoadJson

SpecParse == InitParse /\ [][NextParse]_vars

FallbackOrdering ==
    [][/\ pc' = "fields" => pc = "parse"
       /\ pc' = "toon" => pc = "fields"
       /\ pc \in {"fields", "toon"} => KeySet(result) # KeySet(signature)
       /\ pc \in {"fields", "toon"} =>
            \A i \in DOMAIN result :
                /\ HasKey(result', result[i][1])
                /\ Lookup(result', result[i][1]) = result[i][2]]_vars

\* parse returned a as the field extraction read it and b from the fenced
\* JSON document, which has another a
FallbackOrderingWitness ==
    /\ pc = "returned"
    /\ InStr(JsonFence, completion)
    /\ HasKey(result, <<"a">>) /\ Lookup(result, <<"a">>) = VInt(1)
    /\ HasKey(result, <<"b">>) /\ Lookup(result, <<"b">>) = VStr(<<"z">>)

(* C21: failures of the sub-parsers never escape parse.  An exception       *)
(* raised while one field is extracted, decoded or converted to its type    *)
(* (the validation of an object built by the inline `k: v, k: v` fallback   *)
(* included) is swallowed and the next stage runs, so the only error parse  *)
(* raises is the parse error for missing fields.                            *)
OnlyParseErrorEscapes ==
    pc = "raised" => raised.v = "AdapterParseError"

-----------------------------------------------------------------------------
(* ToonAdapter: the messages of the prompt (toon_adapter.py)                *)

\* _encode_value of toon_adapter.py: the text of a field's value in a
\* message; a model instance is dumped to a dict first
EncodeValueText(val) ==
    IF val.t = "model" THEN encode(VObj(val.v), DefaultOptions)
    ELSE IF val.t \in {"arr", "obj"} THEN encode(val, DefaultOptions)
    ELSE KeyStr(val)

\* "\n" in encoded or isinstance(value, (BaseModel, list, dict))
OnOwnLines(val, encoded) ==
    InStr(<<NEWLINE>>, encoded) \/ val.t \in {"model", "arr", "obj"}

\* f"{name}:\n{encoded}" or f"{name}: {encoded}"
FieldPart(name, val, encoded) ==
    IF OnOwnLines(val, encoded) THEN name \o <<COLON, NEWLINE>> \o encoded
    ELSE name \o <<COLON, SPACE>> \o encoded

RECURSIVE InputParts(_, _)
\* the parts format_user_message_content makes of the input fields
InputParts(names, given) ==
    IF names = <<>> THEN <<>>
    ELSE IF HasKey(given, Head(names))
    THEN <<FieldPart(Head(names), Lookup(given, Head(names)),
                     EncodeValueText(Lookup(given, Head(names))))>>
            \o InputParts(Tail(names), given)
    ELSE InputParts(Tail(names), given)

MainRequest ==
    <<NEWLINE, "P", "r", "o", "v", "i", "d", "e", " ", "o", "u", "t", "p",
      "u", "t", " ", "i", "n", " ", "T", "O", "O", "N", " ", "f", "o", "r",
      "m", "a", "t", " ", "a", "s", " ", "s", "h", "o", "w", "n", " ", "a",
      "b", "o", "v", "e", ".">>

format_user_message_content(sig, given, prefix, suffix, main_request) ==
    Strip(Join(<<NEWLINE, NEWLINE>>,
               (IF prefix # <<>> THEN <<prefix>> ELSE <<>>)
                   \o InputParts(Keys(sig.input_fields), given)
                   \o (IF main_request THEN <<MainRequest>> ELSE <<>>)
                   \o (IF suffix # <<>> THEN <<suffix>> ELSE <<>>)))

RECURSIVE OutputParts(_, _, _)
\* the parts format_assistant_message_content makes of the output fields;
\* missing_field_message is None or a str
OutputParts(names, outputs, missing_field_message) ==
    IF names = <<>> THEN <<>>
    ELSE LET val == IF HasKey(outputs, Head(names)) THEN Lookup(outputs, Head(names))
                    ELSE missing_field_message
             rest == OutputParts(Tail(names), outputs, missing_field_message)
         IN  IF val = VNull THEN rest
             ELSE <<FieldPart(Head(names), val, EncodeValueText(val))>> \o rest

format_assistant_message_content(sig, outputs, missing_field_message) ==
    Join(<<NEWLINE>>, OutputParts(Keys(sig.output_fields), outputs, missing_field_message))

Message(role, content) == [role |-> role, content |-> content]

\* signature.fields: the input fields, then the output fields
FieldNames(sig) == Keys(sig.input_fields) \o Keys(sig.output_fields)

\* all(k in demo and demo[k] is not None for k in signature.fields)
is_complete(sig, demo) ==
    \A i \in DOMAIN FieldNames(sig) :
        HasKey(demo, FieldNames(sig)[i]) /\ Lookup(demo, FieldNames(sig)[i]) # VNull

\* any(k in demo for k in signature.input_fields)
has_input(sig, demo) == \E i \in DOMAIN sig.input_fields : HasKey(demo, sig.input_fields[i][1])

has_output(sig, demo) == \E i \in DOMAIN sig.output_fields : HasKey(demo, sig.output_fields[i][1])

RECURSIVE complete_demos(_, _)
complete_demos(sig, ds) ==
    IF ds = <<>> THEN <<>>
    ELSE (IF is_complete(sig, Head(ds)) THEN <<Head(ds)>> ELSE <<>>)
            \o complete_demos(sig, Tail(ds))

RECURSIVE incomplete_demos(_, _)
incomplete_demos(sig, ds) ==
    IF ds = <<>> THEN <<>>
    ELSE (IF /\ ~is_complete(sig, Head(ds))
             /\ has_input(sig, Head(ds))
             /\ has_output(sig, Head(ds))
          THEN <<Head(ds)>> ELSE <<>>)
            \o incomplete_demos(sig, Tail(ds))

NoDemoPrefix == <<>>

incomplete_demo_prefix ==
    <<"T", "h", "i", "s", " ", "i", "s", " ", "a", "n", " ", "e", "x", "a",
      "m", "p", "l", "e", " ", "o", "f", " ", "t", "h", "e", " ", "t", "a",
      "s", "k", ",", " ", "t", "h", "o", "u", "g", "h", " ", "s", "o", "m",
      "e", " ", "i", "n", "p", "u", "t", " ", "o", "r", " ", "o", "u", "t",
      "p", "u", "t", " ", "f", "i", "e", "l", "d", "s", " ", "a", "r", "e",
      " ", "n", "o", "t", " ", "s", "u", "p", "p", "l", "i", "e", "d", ".">>

NotSupplied ==
    <<"N", "o", "t", " ", "s", "u", "p", "p", "l", "i", "e", "d", " ", "f",
      "o", "r", " ", "t", "h", "i", "s", " ", "p", "a", "r", "t", "i", "c",
      "u", "l", "a", "r", " ", "e", "x", "a", "m", "p", "l", "e", ".">>

RECURSIVE DemoMessages(_, _, _, _)
\* one loop of format_demos: a user and an assistant message for each demo
DemoMessages(sig, ds, prefix, missing_field_message) ==
    IF ds = <<>> THEN <<>>
    ELSE << Message("user", format_user_message_content(sig, Head(ds), prefix, <<>>, FALSE)),
            Message("assistant",
                    format_assistant_message_content(sig, Head(ds), missing_field_message)) >>
            \o DemoMessages(sig, Tail(ds), prefix, missing_field_message)

format_demos(sig, ds) ==
    DemoMessages(sig, incomplete_demos(sig, ds), incomplete_demo_prefix, VStr(NotSupplied))
        \o DemoMessages(sig, complete_demos(sig, ds), <<>>, VNull)

\* format_demos, from its call to its return
FormatDemos ==
    /\ pc = "demos"
    /\ messages' = format_demos(signature, demos)
    /\ pc' = "formatted"
    /\ UNCHANGED <<value, options, text, result, calls, writers, signature, completion,
                   raised, demos, inputs>>

\* most demos in one call
MaxDemos == 2

\* the values of a demo's field: None and a str for x, None and a list for
\* y, all three for a
DemoValues(name) ==
    IF name = <<"x">> THEN {VNull, VStr(<<"v">>)}
    ELSE IF name = <<"y">> THEN {VNull, VArr(<<VStr(<<"v">>), VStr(<<"w">>)>>)}
    ELSE {VNull, VStr(<<"v">>), VArr(<<VStr(<<"v">>), VStr(<<"w">>)>>)}

RECURSIVE DemoDicts(_)
\* the demos that hold some of the fields named, each with one of its values
DemoDicts(names) ==
    IF names = <<>> THEN {<<>>}
    ELSE LET rest == DemoDicts(Tail(names))
         IN  rest \cup {<< <<Head(names), v>> >> \o d : v \in DemoValues(Head(names)), d \in rest}

\* inputs x and y with output a, and input x with outputs y and a
DemoSignatures ==
    { [input_fields |-> << <<(<<"x">>), "str">>, <<(<<"y">>), "list[str]">> >>,
       output_fields |-> << <<(<<"a">>), "str">> >>],
      [input_fields |-> << <<(<<"x">>), "str">> >>,
       output_fields |-> << <<(<<"y">>), "list[str]">>, <<(<<"a">>), "str">> >>] }

InitDemos ==
    /\ pc = "demos"
    /\ value = NoValue
    /\ options = DefaultOptions
    /\ text = <<>>
    /\ result = NoResult
    /\ calls = <<>>
    /\ writers = <<>>
    /\ signature \in DemoSignatures
    /\ completion = <<>>
    /\ raised = NoResult
    /\ demos \in SeqsUpTo(DemoDicts(<< <<"x">>, <<"y">>, <<"a">> >>), MaxDemos)
    /\ inputs = <<>>
    /\ messages = <<>>

SpecDemos == InitDemos /\ [][FormatDemos]_vars

(* C22: the partition of the few-shot demos.  format_demos keeps a demo as  *)
(* complete iff every field of the signature is present and not None,       *)
(* otherwise as incomplete iff one input field and one output field at      *)
(* least are present, and drops it otherwise.  Every demo kept gives one    *)
(* user message followed by one assistant message; the user message of      *)
(* every incomplete demo, and of no complete one, starts with the           *)
(* disclaimer line; the incomplete demos all come before the complete ones. *)
DemosPartitioned ==
    pc = "formatted" =>
        LET AllSupplied(d) ==
                \A i \in DOMAIN FieldNames(signature) :
                    /\ HasKey(d, FieldNames(signature)[i])
                    /\ Lookup(d, FieldNames(signature)[i]) # VNull
            PartlySupplied(d) ==
                /\ ~AllSupplied(d)
                /\ \E i \in DOMAIN signature.input_fields :
                        HasKey(d, signature.input_fields[i][1])
                /\ \E i \in DOMAIN signature.output_fields :
                        HasKey(d, signature.output_fields[i][1])
            partly == SelectSeq(demos, PartlySupplied)
            kept == partly \o SelectSeq(demos, AllSupplied)
            Disclaimed(content) ==
                \/ content = incomplete_demo_prefix
                \/ StartsAt(content, incomplete_demo_prefix \o <<NEWLINE>>, 0)
        IN  /\ Len(messages) = 2 * Len(kept)
            /\ \A i \in DOMAIN kept :
                /\ messages[2 * i - 1].role = "user"
                /\ messages[2 * i].role = "assistant"
                /\ Disclaimed(messages[2 * i - 1].content) <=> i <= Len(partly)
                /\ messages[2 * i].content =
                        format_assistant_message_content(signature, kept[i],
                            IF i <= Len(partly) THEN VStr(NotSupplied) ELSE VNull)

\* format_demos returned four messages for a complete demo followed by an
\* incomplete one: the incomplete one's messages come first
DemosPartitionedWitness ==
    /\ pc = "formatted"
    /\ Len(demos) = 2
    /\ Len(messages) = 4
    /\ is_complete(signature, demos[1])
    /\ ~is_complete(signature, demos[2])

-----------------------------------------------------------------------------
(* ToonAdapter.format_conversation_history                                  *)

\* d without the key k: del d[k]
DictDel(pairs, k) == SelectSeq(pairs, LAMBDA p : p[1] # k)

\* a History object, which has the attribute messages
History(msgs) == [t |-> "History", v |-> msgs]

\* a turn that is no dict: it is formatted as the fields of the signature
Example(pairs) == [t |-> "Example", v |-> pairs]

USER == <<"u", "s", "e", "r">>
ASSISTANT == <<"a", "s", "s", "i", "s", "t", "a", "n", "t">>

\* the messages the loop of format_conversation_history appends for one turn
TurnMessages(sig, message) ==
    IF message.t = "obj"
    THEN (IF HasKey(message.v, USER)
          THEN <<Message("user", KeyStr(Lookup(message.v, USER)))>> ELSE <<>>)
         \o (IF HasKey(message.v, ASSISTANT)
             THEN <<Message("assistant", KeyStr(Lookup(message.v, ASSISTANT)))>> ELSE <<>>)
    ELSE << Message("user", format_user_message_content(sig, message.v, <<>>, <<>>, FALSE)),
            Message("assistant", format_assistant_message_content(sig, message.v, VNull)) >>

RECURSIVE HistoryMessages(_, _)
HistoryMessages(sig, conversation_history) ==
    IF conversation_history = <<>> THEN <<>>
    ELSE TurnMessages(sig, Head(conversation_history))
            \o HistoryMessages(sig, Tail(conversation_history))

\* inputs.get(history_field_name)
HistoryValue(history_field_name, given) ==
    IF HasKey(given, history_field_name) THEN Lookup(given, history_field_name) ELSE VNull

\* the messages returned, and the inputs as the call leaves them
format_conversation_history(sig, history_field_name, given) ==
    LET history_value == HistoryValue(history_field_name, given)
    IN  [messages |-> IF history_value.t \in {"History", "arr"}
                      THEN HistoryMessages(sig, history_value.v)
                      ELSE <<>>,
         inputs |-> DictDel(given, history_field_name)]

HistoryField == <<"h">>

\* format_conversation_history, from its call to its return
FormatHistory ==
    /\ pc = "history"
    /\ messages' = format_conversation_history(signature, HistoryField, inputs).messages
    /\ inputs' = format_conversation_history(signature, HistoryField, inputs).inputs
    /\ pc' = "flattened"
    /\ UNCHANGED <<value, options, text, result, calls, writers, signature, completion,
                   raised, demos>>

\* most turns of a history
MaxTurns == 3

\* legacy turns with both keys, with one of them, with neither; a typed turn
Turns ==
    { VObj(<< <<USER, VStr(<<"u">>)>>, <<ASSISTANT, VStr(<<"r">>)>> >>),
      VObj(<< <<USER, VInt(1)>> >>),
      VObj(<< <<ASSISTANT, VStr(<<"r">>)>> >>),
      VObj(<< <<(<<"x">>), VStr(<<"v">>)>> >>),
      Example(<< <<(<<"x">>), VStr(<<"v">>)>>, <<(<<"a">>), VStr(<<"w">>)>> >>) }

\* the history given: a History, a list, None, or a str
Histories(n) ==
    {History(h) : h \in SeqsUpTo(Turns, n)} \cup {VArr(h) : h \in SeqsUpTo(Turns, n)}
        \cup {VNull, VStr(<<"v">>)}

InitHistory ==
    /\ pc = "history"
    /\ value = NoValue
    /\ options = DefaultOptions
    /\ text = <<>>
    /\ result = NoResult
    /\ calls = <<>>
    /\ writers = <<>>
    /\ signature \in DemoSignatures
    /\ completion = <<>>
    /\ raised = NoResult
    /\ demos = <<>>
    /\ inputs \in {<< <<(<<"x">>), VStr(<<"v">>)>> >>}
                    \cup {<< <<HistoryField, h>>, <<(<<"x">>), VStr(<<"v">>)>> >> : h \in Histories(MaxTurns)}
    /\ messages = <<>>

SpecHistory == InitHistory /\ [][FormatHistory]_vars

(* C23: the flattened history alternates roles.  For every history, a       *)
(* History or a legacy list of dict turns, turns with only a user or only   *)
(* an assistant key included, the messages format_conversation_history      *)
(* returns are user, assistant, user, assistant, ..., starting with user;   *)
(* and on return the history field is no key of the inputs.                 *)
HistoryAlternates ==
    pc = "flattened" =>
        /\ \A i \in DOMAIN messages :
                messages[i].role = IF i % 2 = 1 THEN "user" ELSE "assistant"
        /\ ~HasKey(inputs, HistoryField)

-----------------------------------------------------------------------------
(* escape_string and unescape_string on their own                           *)

\* longest string escaped or unescaped
MaxEscLen == 3

EscAlphabet ==
    {BACKSLASH, DOUBLE_QUOTE, NEWLINE, CARRIAGE_RETURN, TAB, "n", "r", "t", "a"}

InitEsc ==
    /\ pc = "start"
    /\ value = NoValue
    /\ options = DefaultOptions
    /\ text \in SeqsUpTo(EscAlphabet, MaxEscLen)
    /\ result = NoResult
    /\ calls = <<>>
    /\ writers = <<>>
    /\ signature = <<>>
    /\ completion = <<>>
    /\ raised = NoResult
    /\ demos = <<>>
    /\ inputs = <<>>
    /\ messages = <<>>

\* result = escape_string(text)
EscapeString ==
    /\ pc = "start"
    /\ result' = VStr(escape_string(text))
    /\ pc' = "escaped"
    /\ UNCHANGED <<value, options, text, calls, writers, signature, completion, raised,
                   demos, inputs, messages>>

\* result = unescape_string(result)
UnescapeEscaped ==
    /\ pc = "escaped"
    /\ result' = unescape_string(result.v)
    /\ pc' = "restored"
    /\ UNCHANGED <<value, options, text, calls, writers, signature, completion, raised,
                   demos, inputs, messages>>

\* result = unescape_string(text), of a text that nothing escaped
UnescapeString ==
    /\ pc = "start"
    /\ result' = unescape_string(text)
    /\ pc' = "unescaped"
    /\ UNCHANGED <<value, options, text, calls, writers, signature, completion, raised,
                   demos, inputs, messages>>

NextEsc == EscapeString \/ UnescapeEscaped \/ UnescapeString

SpecEsc == InitEsc /\ [][NextEsc]_vars

\* the backslash at s[i] starts an escape sequence: the backslashes right
\* before it pair up
RECURSIVE StartsEscape(_, _)
StartsEscape(s, i) ==
    /\ s[i] = BACKSLASH
    /\ (i = 1 \/ ~StartsEscape(s, i - 1))

(* C24: escape and unescape are inverse.  unescape_string(escape_string(s)) *)
(* is s for every string s, those with a backslash before n, r, t or a      *)
(* quote included; unescape_string raises on a backslash followed by a      *)
(* character other than backslash, double quote, n, r and t, and on a lone  *)
(* backslash at the end.                                                    *)
EscapeUnescapeInverse ==
    /\ pc = "restored" => result = VStr(text)
    /\ pc = "unescaped" =>
        (IsErr(result) <=>
            \E i \in DOMAIN text :
                /\ StartsEscape(text, i)
                /\ \/ i = Len(text)
                   \/ text[i + 1] \notin {BACKSLASH, DOUBLE_QUOTE, "n", "r", "t"})

\* a backslash before n, and a newline, came back as they were
EscapeUnescapeInverseWitness ==
    /\ pc = "restored"
    /\ text = <<BACKSLASH, "n", NEWLINE>>
    /\ result = VStr(text)

-----------------------------------------------------------------------------
(* find_unquoted_char on lines built from quoted and unquoted segments      *)

\* most segments of a line before its tail
MaxSegs == 2

\* what stands between the quotes of a span: characters, and the sequences
\* backslash quote and backslash backslash
QuotedInners ==
    { <<>>, <<COLON>>, <<"a", COLON>>,
      <<BACKSLASH, DOUBLE_QUOTE, COLON>>,
      <<COLON, BACKSLASH, DOUBLE_QUOTE>>,
      <<BACKSLASH, BACKSLASH>> }

Quoted(inner) == <<DOUBLE_QUOTE>> \o inner \o <<DOUBLE_QUOTE>>

\* one character outside quotes, or one quoted span
Segments == {<<"a">>, <<COLON>>, <<BACKSLASH>>} \cup {Quoted(inner) : inner \in QuotedInners}

\* the end of a line: nothing, or a quote that is never closed
OpenTails == {<<>>} \cup {<<DOUBLE_QUOTE>> \o inner : inner \in {<<>>, <<COLON>>, <<"a", COLON>>}}

\* the arguments of one call: the line as its segments and tail, the
\* character sought, and the number of segments before start
ScanCall(segs, tail, char, skipped) ==
    [t |-> "scan", segments |-> segs, tail |-> tail, char |-> char, skipped |-> skipped]

\* the index at which segment k + 1 starts
SegmentStart(segs, k) == Len(Concat(SubSeq(segs, 1, k)))

InitScan ==
    /\ pc = "start"
    /\ value \in {ScanCall(segs, tail, char, k) :
                    segs \in SeqsUpTo(Segments, MaxSegs), tail \in OpenTails,
                    char \in {COLON, "a"}, k \in 0..MaxSegs}
    /\ value.skipped <= Len(value.segments)
    /\ options = DefaultOptions
    /\ text = Concat(value.segments) \o value.tail
    /\ result = NoResult
    /\ calls = <<>>
    /\ writers = <<>>
    /\ signature = <<>>
    /\ completion = <<>>
    /\ raised = NoResult
    /\ demos = <<>>
    /\ inputs = <<>>
    /\ messages = <<>>

\* result = find_unquoted_char(text, char, start)
Scan ==
    /\ pc = "start"
    /\ result' = VInt(find_unquoted_char(text, value.char,
                                         SegmentStart(value.segments, value.skipped)))
    /\ pc' = "scanned"
    /\ UNCHANGED <<value, options, text, calls, writers, signature, completion, raised,
                   demos, inputs, messages>>

SpecScan == InitScan /\ [][Scan]_vars

\* the indexes from start on at which char stands outside the quoted spans:
\* the starts of the one-character segments that are char
UnquotedAt(call) ==
    {SegmentStart(call.segments, k - 1) :
        k \in {j \in (call.skipped + 1)..Len(call.segments) : call.segments[j] = <<call.char>>}}

-----------------------------------------------------------------------------
(* Strict decode of documents whose every line holds a key of its own       *)

\* most lines of such a document
MaxKeyLines == 3

\* the key of line i
LineKeys == <<"a", "b", "c", "d", "e">>

\* line i at a depth, `k: i` or `k:` that opens a nested object
KeyLine(i, depth, opens) ==
    Repeat(<<SPACE>>, depth * DefaultIndent) \o <<LineKeys[i], COLON>>
        \o (IF opens THEN <<>> ELSE <<SPACE>> \o NatToStr(i))

\* the documents of n lines
KeyDocuments(n) ==
    {[i \in 1..n |-> KeyLine(i, shape[i][1], shape[i][2])] :
        shape \in [1..n -> (0..2) \X BOOLEAN]}

InitKeys ==
    /\ pc = "text"
    /\ value = NoValue
    /\ options = DefaultOptions
    /\ text \in {Join(<<NEWLINE>>, doc) : doc \in UNION {KeyDocuments(n) : n \in 1..MaxKeyLines}}
    /\ result = NoResult
    /\ calls = <<>>
    /\ writers = <<>>
    /\ signature = <<>>
    /\ completion = <<>>
    /\ raised = NoResult
    /\ demos = <<>>
    /\ inputs = <<>>
    /\ messages = <<>>

SpecKeys == InitKeys /\ [][Decode]_vars

RECURSIVE KeysWithin(_)
\* the keys of an object and of the objects nested in it
KeysWithin(val) ==
    IF val.t # "obj" THEN {}
    ELSE {val.v[i][1] : i \in DOMAIN val.v}
            \cup UNION {KeysWithin(val.v[i][2]) : i \in DOMAIN val.v}

(* C26: no silent loss of data in strict mode.  Every non-blank line gives  *)
(* a key, value, row or item to the value decode returns, or decode raises; *)
(* a line indented deeper than the body of the object being read, with no   *)
(* line above it that opens a nested object or array, is not skipped        *)
(* without an error.                                                        *)
StrictNoSilentLoss ==
    pc = "decoded" /\ options.strict /\ ~IsErr(result) =>
        \A i \in 1..Len(SplitStr(text, <<NEWLINE>>)) : <<LineKeys[i]>> \in KeysWithin(result)

-----------------------------------------------------------------------------
(* Round trips of objects that have the empty string as a key               *)

\* most elements of an array, most fields of an object, under an empty key
MaxUnder == 2

\* the objects and arrays put under the key ""
UnderEmptyKey(n) ==
    ObjectsOf(Prims, n) \cup ArraysOf(Prims, n)
        \cup {VArr(<<o>>) : o \in ObjectsOf({VInt(1)}, n)}

\* {"": x}, {"": x, "k": 1} and {"k": {"": x}}
EmptyKeyValues(n) ==
    UNION {{ VObj(<< <<(<<>>), x>> >>),
             VObj(<< <<(<<>>), x>>, <<(<<"k">>), VInt(1)>> >>),
             VObj(<< <<(<<"k">>), VObj(<< <<(<<>>), x>> >>)>> >>) } : x \in UnderEmptyKey(n)}

InitEmptyKey ==
    /\ pc = "start"
    /\ value \in EmptyKeyValues(MaxUnder)
    /\ options = DefaultOptions
    /\ text = <<>>
    /\ result = NoResult
    /\ calls = <<>>
    /\ writers = <<>>
    /\ signature = <<>>
    /\ completion = <<>>
    /\ raised = NoResult
    /\ demos = <<>>
    /\ inputs = <<>>
    /\ messages = <<>>

SpecEmptyKey == InitEmptyKey /\ [][Next]_vars

\* the object of v that has the key ""
HolderOf(v) == IF HasKey(v.v, <<>>) \/ v.v = <<>> THEN v ELSE v.v[1][2]

(* C27: empty-string keys keep their nesting.  For an object that maps ""   *)
(* to a nested object or to an array, the encoder writes the quoted key (a  *)
(* `"":` line or a `""[N]` header), so that decode(encode(v)) has the       *)
(* nested value under the key "", its fields not merged into the parent and *)
(* its header not anonymous.                                                *)
EmptyKeyKeepsNesting ==
    /\ pc \in {"text", "decoded"} =>
            InStr(<<DOUBLE_QUOTE, DOUBLE_QUOTE>>, text)
    /\ pc = "decoded" =>
            /\ ~IsErr(result)
            /\ result.t = "obj"
            /\ HolderOf(result).t = "obj"
            /\ HasKey(HolderOf(result).v, <<>>)
            /\ PyEq(Lookup(HolderOf(result).v, <<>>), Lookup(HolderOf(value).v, <<>>))

-----------------------------------------------------------------------------
(* Documents with blank lines before their first line                       *)

\* most blank lines put before a document
MaxBlank == 2

\* an empty line, a line of spaces, a line that is a tab
BlankLines == {<<>>, <<SPACE, SPACE>>, <<TAB>>}

\* nothing; objects; a primitive; root arrays: inline, tabular, list, empty
BlankBases ==
    { <<>>,
      << <<"a", ":", " ", "1">> >>,
      << <<"a", ":", " ", "1">>, <<"b", ":">>, <<" ", " ", "c", ":", " ", "2">> >>,
      << <<"x">> >>,
      << <<"[", "2", "]", ":", " ", "1", ",", "2">> >>,
      << <<"[", "1", "]", "{", "a", ",", "b", "}", ":">>, <<" ", " ", "1", ",", "2">> >>,
      << <<"[", "2", "]", ":">>, <<" ", " ", "-", " ", "1">>, <<" ", " ", "-", " ", "2">> >>,
      << <<"[", "0", "]", ":">> >> }

InitBlank ==
    /\ pc = "text"
    /\ value = NoValue
    /\ options \in {[DefaultOptions EXCEPT !.strict = s] : s \in BOOLEAN}
    /\ text \in {Join(<<NEWLINE>>, blanks \o base) :
                    blanks \in SeqsUpTo(BlankLines, MaxBlank), base \in BlankBases}
    /\ result = NoResult
    /\ calls = <<>>
    /\ writers = <<>>
    /\ signature = <<>>
    /\ completion = <<>>
    /\ raised = NoResult
    /\ demos = <<>>
    /\ inputs = <<>>
    /\ messages = <<>>

SpecBlank == InitBlank /\ [][Decode]_vars

RECURSIVE DropBlank(_)
\* the lines from the first that is not blank
DropBlank(lines) ==
    IF lines # <<>> /\ Strip(Head(lines)) = <<>> THEN DropBlank(Tail(lines)) ELSE lines

\* the document without the blank lines before it
WithoutLeadingBlanks(s) == Join(<<NEWLINE>>, DropBlank(SplitStr(s, <<NEWLINE>>)))

(* C28: blank lines outside array bodies are ignored.  decode of an empty   *)
(* or whitespace-only text returns the empty object, and a document with    *)
(* blank lines put before it (its root an object, a primitive or an         *)
(* anonymous root array header) decodes to the value of the document        *)
(* without them.                                                            *)
LeadingBlanksIgnored ==
    pc = "decoded" =>
        /\ Strip(text) = <<>> => result = VObj(<<>>)
        /\ LET alone == decode(WithoutLeadingBlanks(text), options)
           IN  IF IsErr(alone) THEN IsErr(result)
               ELSE ~IsErr(result) /\ PyEq(result, alone)

-----------------------------------------------------------------------------
(* The line loops of the decoder, one iteration at a time. calls holds the  *)
(* frames followed so far, the newest first: each iteration and each call   *)
(* made by an iteration puts one frame in front.                            *)

\* the call whose loop is followed: fn is "object" (_decode_object),
\* "tabular" (_decode_tabular_array), "list" (_decode_list_array) or "fields"
\* (the inner loop of _decode_list_array over the further fields of an item);
\* i is the loop's index, depth its expected_depth, row_depth, item_depth or
\* the depth of the field lines
Frame(fn, i, depth, fields, delimiter) ==
    [fn |-> fn, i |-> i, depth |-> depth, fields |-> fields, delimiter |-> delimiter]

\* what an iteration gives in place of the next index when it leaves the
\* loop by break, by return or by raising
Left == 0 - 1

\* the lines decode hands to the loops
ParsedLines(input_str, opts) == StripContents(_to_parsed_lines(input_str, opts.indent, opts.strict))

\* an index that an iteration leaves where it was
SameLine(i) == i

\* i after i += 1
NextLine(i) == i + 1

\* key: value or key: on line i, in _decode_object and in the inner loop of
\* _decode_list_array
ValueStep(lines, i, strict, kv, key) ==
    IF IsErr(key) THEN Left
    ELSE IF kv.val = <<>>
    THEN (IF IsErr(_decode_object(lines, i + 1, lines[i + 1].depth, strict)) THEN Left
          ELSE SkipWhileDeeper(lines, NextLine(i), lines[i + 1].depth))
    ELSE IF IsErr(_parse_primitive(kv.val)) THEN Left
    ELSE NextLine(i)

ObjectSplitStep(lines, i, strict, kv) ==
    IF IsErr(kv) THEN (IF strict THEN Left ELSE NextLine(i))
    ELSE ValueStep(lines, i, strict, kv, _parse_key(kv.key))

\* i = next_i, unless the array decoder raised
ArrayStep(arr) == IF IsErr(arr.v) THEN Left ELSE arr.i

ObjectHeaderStep(lines, i, strict, header_info) ==
    IF IsErr(header_info) THEN Left
    ELSE IF header_info.t = "header" /\ header_info.key.some
    THEN ArrayStep(_decode_array_from_header(lines, i, lines[i + 1].depth, header_info, strict))
    ELSE ObjectSplitStep(lines, i, strict, _split_key_value(lines[i + 1].content))

\* one iteration of the while loop of _decode_object at index i
ObjectStep(lines, i, expected_depth, strict) ==
    IF is_blank(lines[i + 1]) THEN NextLine(i)
    ELSE IF lines[i + 1].depth < expected_depth THEN Left
    ELSE IF lines[i + 1].depth > expected_depth THEN NextLine(i)
    ELSE ObjectHeaderStep(lines, i, strict, _parse_header(lines[i + 1].content))

TabularRowStep(i, fields, strict, vals) ==
    IF IsErr(vals) THEN Left
    ELSE IF strict /\ Len(vals.v) # Len(fields) THEN Left
    ELSE NextLine(i)

\* one iteration of the while loop of _decode_tabular_array at index i
TabularStep(lines, i, row_depth, fields, delimiter, strict) ==
    IF is_blank(lines[i + 1]) THEN (IF strict THEN Left ELSE NextLine(i))
    ELSE IF lines[i + 1].depth # row_depth THEN Left
    ELSE IF _is_row_line(lines[i + 1].content, delimiter)
    THEN TabularRowStep(i, fields, strict,
                        ParsePrimitives(parse_delimited_values(lines[i + 1].content, delimiter),
                                        <<>>))
    ELSE Left

\* the end of the try block of _decode_list_array, or its except block
ListTriedStep(i, item_content, item) ==
    IF ~IsErr(item) THEN item.i
    ELSE IF item_content = <<>> THEN NextLine(i)
    ELSE IF IsErr(_parse_primitive(item_content)) THEN Left
    ELSE NextLine(i)

\* the item is an inline array: `- [N]: v1,v2`
InlineItem(item_content, item_header) ==
    /\ item_header.t = "header"
    /\ ~item_header.key.some
    /\ Find(item_content, COLON) # -1
    /\ (Strip(From(item_content, Find(item_content, COLON) + 1)) # <<>> \/ item_header.length = 0)

ListItemStep(lines, i, strict, item_content, item_header) ==
    IF IsErr(item_header) THEN Left
    ELSE IF InlineItem(item_content, item_header)
    THEN (IF IsErr(_decode_inline_array(Strip(From(item_content, Find(item_content, COLON) + 1)),
                                        item_header.delimiter, item_header.length, strict))
          THEN Left ELSE NextLine(i))
    ELSE ListTriedStep(i, item_content, ListTry(lines, i, strict, _split_key_value(item_content)))

ItemContent(line) == Strip(From(line.content, Len(LIST_ITEM_PREFIX)))

\* one iteration of the outer while loop of _decode_list_array at index i
ListStep(lines, i, item_depth, strict) ==
    IF is_blank(lines[i + 1]) THEN (IF strict THEN Left ELSE NextLine(i))
    ELSE IF lines[i + 1].depth < item_depth THEN Left
    ELSE IF ~StartsWith(lines[i + 1].content, LIST_ITEM_PREFIX) THEN Left
    ELSE ListItemStep(lines, i, strict, ItemContent(lines[i + 1]),
                      _parse_header(ItemContent(lines[i + 1])))

FieldSplitStep(lines, i, strict, kv) ==
    IF IsErr(kv) THEN Left ELSE ValueStep(lines, i, strict, kv, _parse_key(kv.key))

\* one iteration of the inner while loop of _decode_list_array at index i
FieldsStep(lines, i, field_depth, strict) ==
    IF lines[i + 1].depth # field_depth THEN Left
    ELSE IF is_blank(lines[i + 1]) THEN NextLine(i)
    ELSE FieldSplitStep(lines, i, strict, _split_key_value(lines[i + 1].content))

\* one iteration of the loop of frame f
Step(lines, f, strict) ==
    IF f.fn = "object" THEN ObjectStep(lines, f.i, f.depth, strict)
    ELSE IF f.fn = "tabular" THEN TabularStep(lines, f.i, f.depth, f.fields, f.delimiter, strict)
    ELSE IF f.fn = "list" THEN ListStep(lines, f.i, f.depth, strict)
    ELSE FieldsStep(lines, f.i, f.depth, strict)

\* the loop _decode_array_from_header enters for the header on line
\* header_idx: none for an inline array
ArrayFrames(header_idx, header_depth, header_info, inline_content) ==
    IF \/ inline_content # <<>>
       \/ ((~header_info.fields.some \/ header_info.fields.v = <<>>) /\ header_info.length = 0)
    THEN {}
    ELSE IF header_info.fields.some
    THEN {Frame("tabular", header_idx + 1, header_depth + 1, header_info.fields.v,
                header_info.delimiter)}
    ELSE {Frame("list", header_idx + 1, header_depth + 1, <<>>, header_info.delimiter)}

\* _decode_object(lines, i + 1, lines[i].depth, strict) for a line `key:`
NestedObject(lines, i, kv) ==
    IF IsErr(kv) \/ IsErr(_parse_key(kv.key)) \/ kv.val # <<>> THEN {}
    ELSE {Frame("object", i + 1, lines[i + 1].depth + 1, <<>>, DEFAULT_DELIMITER)}

ObjectCallees(lines, i, header_info) ==
    IF IsErr(header_info) THEN {}
    ELSE IF header_info.t = "header" /\ header_info.key.some
    THEN ArrayFrames(i, lines[i + 1].depth, header_info,
                     InlineContent(_split_key_value(lines[i + 1].content)))
    ELSE NestedObject(lines, i, _split_key_value(lines[i + 1].content))

\* the nested object of `- key:` on line i, read one level deeper than a
\* field's, and the inner loop over the item's further fields
ItemCallees(lines, i, strict, kv) ==
    IF IsErr(kv) \/ IsErr(_parse_key(kv.key)) THEN {}
    ELSE IF kv.val # <<>>
    THEN (IF IsErr(_parse_primitive(kv.val)) THEN {}
          ELSE {Frame("fields", i + 1, lines[i + 1].depth + 1, <<>>, DEFAULT_DELIMITER)})
    ELSE {Frame("object", i + 1, lines[i + 1].depth + 2, <<>>, DEFAULT_DELIMITER)}
            \cup (IF IsErr(_decode_object(lines, i + 1, lines[i + 1].depth + 1, strict)) THEN {}
                  ELSE {Frame("fields", SkipWhileDeeper(lines, i + 1, lines[i + 1].depth + 1),
                              lines[i + 1].depth + 1, <<>>, DEFAULT_DELIMITER)})

ListCallees(lines, i, strict, item_content, item_header) ==
    IF IsErr(item_header) \/ InlineItem(item_content, item_header) THEN {}
    ELSE ItemCallees(lines, i, strict, _split_key_value(item_content))

\* the loops entered by the calls that the iteration of frame f at its index
\* makes
Callees(lines, f, strict) ==
    IF f.i >= Len(lines) \/ is_blank(lines[f.i + 1]) THEN {}
    ELSE IF f.fn = "object"
    THEN (IF lines[f.i + 1].depth # f.depth THEN {}
          ELSE ObjectCallees(lines, f.i, _parse_header(lines[f.i + 1].content)))
    ELSE IF f.fn = "list"
    THEN (IF lines[f.i + 1].depth < f.depth \/ ~StartsWith(lines[f.i + 1].content, LIST_ITEM_PREFIX)
          THEN {}
          ELSE ListCallees(lines, f.i, strict, ItemContent(lines[f.i + 1]),
                           _parse_header(ItemContent(lines[f.i + 1]))))
    ELSE IF f.fn = "fields"
    THEN (IF lines[f.i + 1].depth # f.depth THEN {}
          ELSE NestedObject(lines, f.i, _split_key_value(lines[f.i + 1].content)))
    ELSE {}

\* the loop decode enters for its lines: that of the root array, or that of
\* the root object; none for an empty document, an inline array, a primitive
RootFrames(lines, first_line, only, header_info) ==
    IF IsErr(header_info) THEN {}
    ELSE IF header_info.t = "header" /\ ~header_info.key.some
    THEN ArrayFrames(0, 0, header_info, InlineContent(_split_key_value(lines[1].content)))
    ELSE IF only /\ header_info.t = "none" /\ IsErr(_split_key_value(first_line.content))
    THEN {}
    ELSE {Frame("object", 0, 0, <<>>, DEFAULT_DELIMITER)}

RootOf(lines, non_blank) ==
    IF non_blank = {} THEN {}
    ELSE LET first_line == lines[CHOOSE i \in non_blank : \A j \in non_blank : i <= j]
         IN  RootFrames(lines, first_line, Cardinality(non_blank) = 1,
                        _parse_header(first_line.content))

\* decode, up to the loop it enters
EnterLoop ==
    /\ pc = "text"
    /\ LET lines == ParsedLines(text, options)
           root == RootOf(lines, {i \in DOMAIN lines : ~is_blank(lines[i])})
       IN  IF root = {} THEN pc' = "left" /\ calls' = calls
           ELSE pc' = "loop" /\ calls' \in {<<f>> : f \in root}
    /\ UNCHANGED <<value, options, text, result, writers, signature, completion, raised,
                   demos, inputs, messages>>

\* the frames followed so far, the newest first, after one iteration
Iterated(trail, next) ==
    IF next = Left THEN trail ELSE <<[trail[1] EXCEPT !.i = next]>> \o trail

\* the test of the loop and, when it holds, one iteration
Iterate ==
    /\ pc = "loop"
    /\ LET lines == ParsedLines(text, options)
       IN  IF calls[1].i >= Len(lines)
           THEN pc' = "left" /\ calls' = calls
           ELSE /\ calls' = Iterated(calls, Step(lines, calls[1], options.strict))
                /\ pc' = IF calls' = calls THEN "left" ELSE "loop"
    /\ UNCHANGED <<value, options, text, result, writers, signature, completion, raised,
                   demos, inputs, messages>>

\* a call made by the iteration: the loop of the callee is followed
Descend ==
    /\ pc = "loop"
    /\ \E f \in Callees(ParsedLines(text, options), calls[1], options.strict) :
          calls' = <<f>> \o calls
    /\ pc' = "loop"
    /\ UNCHANGED <<value, options, text, result, writers, signature, completion, raised,
                   demos, inputs, messages>>

\* most lines of a document
MaxLoopLines == 3

LoopLines ==
    { <<"a", ":">>, <<"k", "[", "2", "]", ":">>, <<"k", "[", "1", "]", "{", "a", ",", "b", "}", ":">>,
      <<"[", "2", "]", ":">>, <<>>,
      <<" ", " ", "a", ":", " ", "1">>, <<" ", " ", "a", ":">>, <<" ", " ", "-", " ", "a", ":">>,
      <<" ", " ", "-", " ", "1">>, <<" ", " ", "1", ",", "2">>,
      <<" ", " ", " ", " ", "b", ":", " ", "1">>, <<" ", " ", " ", " ", "b", ":">> }

InitLoops ==
    /\ pc = "text"
    /\ value = NoValue
    /\ options \in {[DefaultOptions EXCEPT !.strict = s] : s \in BOOLEAN}
    /\ text \in {Join(<<NEWLINE>>, doc) : doc \in SeqsUpTo(LoopLines, MaxLoopLines)}
    /\ result = NoResult
    /\ calls = <<>>
    /\ writers = <<>>
    /\ signature = <<>>
    /\ completion = <<>>
    /\ raised = NoResult
    /\ demos = <<>>
    /\ inputs = <<>>
    /\ messages = <<>>

NextLoops == EnterLoop \/ Iterate \/ Descend

SpecLoops == InitLoops /\ [][NextLoops]_vars

\* the array decoder's result for the keyed header on line i of an object
\* loop, when it returns one
HeaderReturn(lines, f, strict) ==
    IF f.fn # "object" \/ f.i >= Len(lines) THEN {}
    ELSE IF is_blank(lines[f.i + 1]) \/ lines[f.i + 1].depth # f.depth THEN {}
    ELSE LET header_info == _parse_header(lines[f.i + 1].content)
         IN  IF IsErr(header_info) THEN {}
             ELSE IF header_info.t = "header" /\ header_info.key.some
             THEN {arr \in {_decode_array_from_header(lines, f.i, f.depth, header_info, strict)} :
                      ~IsErr(arr.v)}
             ELSE {}

\* C29: decode terminates on every finite input in both modes: an iteration
\* of a line loop of _decode_object, _decode_tabular_array or
\* _decode_list_array that does not leave the loop moves the index forward,
\* to at most the number of lines; a call made by an iteration starts its
\* loop on a later line; the index an array decoder returns is greater than
\* its header's and at most the number of lines. So the frames followed on
\* one path through a document are no more than its lines and one.
DecodeTerminates ==
    pc \in {"loop", "left"} =>
        LET lines == ParsedLines(text, options) IN
        /\ \A k \in DOMAIN calls :
              /\ calls[k].i <= Len(lines)
              /\ k > 1 => calls[k - 1].i > calls[k].i
        /\ Len(calls) <= Len(lines) + 1
        /\ pc = "loop" =>
              \A arr \in HeaderReturn(lines, calls[1], options.strict) :
                  arr.i > calls[1].i /\ arr.i <= Len(lines)

\* the inner loop over the fields of a list item, reached through an object
\* and a list, has moved to the end of a document of three lines or more
DecodeTerminatesWitness ==
    /\ pc = "loop"
    /\ calls[1].fn = "fields"
    /\ calls[1].i >= 3
    /\ calls[1].i = Len(ParsedLines(text, options))
    /\ \E k \in DOMAIN calls : calls[k].fn = "list"
    /\ \E k \in DOMAIN calls : calls[k].fn = "object"

\* name: null
NullLine(name) == name \o <<":", " ">> \o NULL_LITERAL

\* the completion has the line name: null and no other line for the name,
\* quoted or not
OnlyNullLine(comp, name) ==
    /\ \E i \in DOMAIN LinesOf(comp) : LinesOf(comp)[i] = NullLine(name)
    /\ \A i \in DOMAIN LinesOf(comp) :
          StartsWith(LinesOf(comp)[i], name) \/ StartsWith(LinesOf(comp)[i], <<DOUBLE_QUOTE>> \o name)
              => LinesOf(comp)[i] = NullLine(name)

\* _extract_field_value finds a value for every declared field but name
OthersExtractable(comp, fields, name) ==
    \A i \in DOMAIN fields :
        fields[i][1] # name =>
            LET val == _extract_field_value(comp, fields[i][1], fields[i][2])
            IN  ~IsErr(val) /\ val.t # "null"

\* C30: null outputs survive preamble chatter.  When the completion has a
\* line a: null for the declared output field a and every other declared
\* field is extractable field by field, parse returns with a present and
\* null, also when the completion as a whole is no TOON and no JSON
\* document because of a line of chatter; it does not count a as missing
\* and raise.
NullSurvivesChatter ==
    /\ pc \in {"returned", "raised"}
    /\ HasKey(signature, <<"a">>)
    /\ OnlyNullLine(Strip(completion), <<"a">>)
    /\ OthersExtractable(Strip(completion), signature, <<"a">>)
    => /\ pc = "returned"
       /\ HasKey(result, <<"a">>)
       /\ Lookup(result, <<"a">>) = VNull

=============================================================================
